---------------------------- MODULE Spec2Model ----------------------------
(***************************************************************************)
(* Instrument coordination layer of the GFET microfluidics rig:            *)
(*   - the command helpers and the request/acknowledge exchange with the   *)
(*     fluidic controller (microfluidics.py),                              *)
(*   - the sweeping sequencer (isswisafre.py),                             *)
(*   - the fluid-detection sequencer and its acquisition worker            *)
(*     (fluid_detection.py).                                               *)
(* Text is a sequence of one-character strings, bytes are a sequence of    *)
(* ASCII codes, so that formatting, encoding, decoding and stripping are   *)
(* computed and not assumed.                                               *)
(***************************************************************************)
EXTENDS Integers, Sequences, FiniteSets, TLC

(***************************************************************************)
(* Bounds of the model.                                                    *)
(***************************************************************************)
\* longest response stream preloaded into the mock port
MaxStream == 3

\* counters of reads and waits stop counting here (a silent port is polled
\* for ever)
MaxCount == MaxStream + 2

\* blank lines the controller sends while it runs one command
MaxBlank == 1

\* longest pattern handed to run_pattern
MaxPattern == 2

\* sampling rounds the acquisition workers begin in one run of run()
MaxSamples == 1

\* sampling rounds the worker of a single session begins
MaxSessionSamples == 2

\* the largest retries argument connect is called with
MaxRetries == 4

(***************************************************************************)
(* Text and bytes.                                                         *)
(***************************************************************************)
Upper == <<"A","B","C","D","E","F","G","H","I","J","K","L","M",
           "N","O","P","Q","R","S","T","U","V","W","X","Y","Z">>

DigitChars == <<"0","1","2","3","4","5","6","7","8","9">>

SP == " "

NL == "\n"

CR == "\r"

Whitespace == {SP, NL, CR, "\t"}

Range(s) == {s[i] : i \in 1..Len(s)}

IndexOf(c, s) == CHOOSE i \in 1..Len(s) : s[i] = c

\* ASCII code of one character
Ord(c) ==
    IF c \in Range(Upper) THEN 64 + IndexOf(c, Upper)
    ELSE IF c \in Range(DigitChars) THEN 47 + IndexOf(c, DigitChars)
    ELSE CASE c = SP   -> 32
           [] c = NL   -> 10
           [] c = CR   -> 13
           [] c = "\t" -> 9
           [] c = "-"  -> 45
           [] c = "_"  -> 95

\* character of one ASCII code
Chr(n) ==
    IF n \in 65..90 THEN Upper[n - 64]
    ELSE IF n \in 48..57 THEN DigitChars[n - 47]
    ELSE CASE n = 32 -> SP
           [] n = 10 -> NL
           [] n = 13 -> CR
           [] n = 9  -> "\t"
           [] n = 45 -> "-"
           [] n = 95 -> "_"

\* str.encode()
Encode(s) == [i \in 1..Len(s) |-> Ord(s[i])]

\* bytes.decode()
Decode(b) == [i \in 1..Len(b) |-> Chr(b[i])]

RECURSIVE LStrip(_)
LStrip(s) ==
    IF s # <<>> /\ Head(s) \in Whitespace THEN LStrip(Tail(s)) ELSE s

RECURSIVE RStrip(_)
RStrip(s) ==
    IF s # <<>> /\ s[Len(s)] \in Whitespace
    THEN RStrip(SubSeq(s, 1, Len(s) - 1))
    ELSE s

\* str.strip()
Strip(s) == RStrip(LStrip(s))

RECURSIVE NatStr(_)
NatStr(n) ==
    IF n < 10 THEN <<DigitChars[n + 1]>>
    ELSE NatStr(n \div 10) \o <<DigitChars[(n % 10) + 1]>>

\* how an f-string renders an int
IntStr(n) == IF n < 0 THEN <<"-">> \o NatStr(0 - n) ELSE NatStr(n)

\* repr() of a bytes object, as interpolated by an f-string
BytesRepr(b) ==
    LET esc(n) == CASE n = 10 -> <<"\\", "n">>
                    [] n = 13 -> <<"\\", "r">>
                    [] n = 9  -> <<"\\", "t">>
                    [] OTHER  -> <<Chr(n)>>
        RECURSIVE body(_)
        body(x) == IF x = <<>> THEN <<>> ELSE esc(Head(x)) \o body(Tail(x))
    IN <<"b", "'">> \o body(b) \o <<"'">>

(***************************************************************************)
(* The words of the protocol.                                              *)
(***************************************************************************)
PRIME == <<"P","R","I","M","E">>

WASH == <<"W","A","S","H">>

PURGE == <<"P","U","R","G","E">>

COLLECT == <<"C","O","L","L","E","C","T">>

CHEM_WASH == <<"C","H","E","M","_","W","A","S","H">>

DASH_C == <<"-","C">>

COLLECTION == <<"C","O","L","L","E","C","T","I","O","N">>

COMMON == <<"C","O","M","M","O","N">>

ALL == <<"A","L","L">>

BOGUS == <<"B","O","G","U","S">>

FIN == <<"F","I","N">>

ERR == <<"E","R","R">>

BUSY == <<"B","U","S","Y">>

(***************************************************************************)
(* Channels.                                                               *)
(***************************************************************************)
\* the members of the Channel enumeration, in definition order
ChannelSeq ==
    <<"WSHL","CH01","CH02","CH03","CH04","CH05","CH06","CH07","CH08","VENT">>

Channel == Range(ChannelSeq)

\* Channel.value
Value(ch) == IndexOf(ch, ChannelSeq) - 1

\* every channel but the wash line
ReagentChannelsWithVent == SelectSeq(ChannelSeq, LAMBDA c : c # "WSHL")

REAGENT_CHANNELS == SelectSeq(ChannelSeq, LAMBDA c : c \notin {"WSHL", "VENT"})

DefaultSeconds == 25

DefaultRpm == 36

(***************************************************************************)
(* State.                                                                  *)
(***************************************************************************)
VARIABLES
    impl,       \* module whose send_and_wait_for_response body is running
    call,       \* the helper call as the client made it
    frame,      \* the running helper's arguments
    pc,         \* position of the calling thread inside the library call
    cmd,        \* send_and_wait_for_response: the cmd/line argument (text)
    line_num,   \* send_and_wait_for_response: the line_num argument
    response,   \* send_and_wait_for_response: the last stripped response
    exc,        \* the exception raised by the library call
    tx,         \* port: the bytes the running library call has written
    rx,         \* port: lines waiting to be read
    script,     \* mock port: the response stream it was preloaded with
    ctrl,       \* fluidic controller: "idle", or "busy" running a command
    blanks,     \* fluidic controller: blank lines sent for this command
    writes,     \* port.write calls made by the running library call
    reads,      \* port.readline calls made by the running exchange
    waits,      \* time.sleep calls made by the running exchange
    portTimeout,  \* port: whether readline gives up (returns no bytes)
                  \* when no line is waiting; a port opened without a
                  \* timeout blocks instead
    smuLevel,   \* instrument: source level of smua (gate), smub (drain)
    smuOutput,  \* instrument: source output of smua, smub: "on" / "off"
    smuCalls,   \* instrument: calls served so far
    pattern,    \* isswisafre: the pattern run_pattern was given
    gate_voltages,     \* isswisafre: the gate voltages to sweep
    channel_voltages,  \* isswisafre: the pair pump_and_read was given
    seq,        \* isswisafre: position of the sequencer
    item,       \* isswisafre: index of the pattern item being run
    counter,    \* isswisafre: pump_and_read's _counter
    gi,         \* isswisafre: index of the gate voltage of the sweep
    ci,         \* isswisafre: index of the channel voltage of the sweep
    reading,    \* isswisafre: the reading take_reading is assembling
    readings,   \* isswisafre: the readings yielded to the consumer
    mark,       \* isswisafre: Len(readings) when the last command was issued
    acked,      \* isswisafre: command(1) calls that returned, each after
                \* one exchange the controller acknowledged with FIN
    ip,         \* fluid_detection: index of the statement of run() to run
    fd,         \* fluid_detection: state of the sequencer thread
    wpc,        \* fluid_detection: position of each channel's worker thread
    wi,         \* fluid_detection: each worker's _i
    stop_event, \* fluid_detection: each session's threading.Event
    results,    \* fluid_detection: each worker's _results
    sink,       \* fluid_detection: content of each channel's result file
    joined,     \* fluid_detection: the sessions whose thread was joined
    samples,    \* fluid_detection: sampling rounds begun in the run so far
    client,     \* which function the sequencer thread runs: "run",
                \* "start_smu" (one session), "stop_smu" (one session,
                \* stopped more than once) or "run_fluid_pattern"
    session,    \* the channel the client works on ("none" for run)
    atStop,     \* fluid_detection: Len of each worker's _results when its
                \* stop() was first called
    probe,      \* one loop iteration of run_smu or read_values: the program
                \* and the values its four measurements return
    row,        \* that iteration's outcome: the reading built, or the
                \* exception raised
    stop_running, \* read_smu_continuously: the global __stop_running__
    rpc,        \* read_smu_continuously: position of the thread in
                \* read_values
    iters,      \* read_values: iterations of the while loop begun
    held,       \* read_values: its arguments gate_voltage and
                \* drain_voltage, and drain_v, drain_c and _reading
    printed,    \* read_values: the readings print_line has printed
    rv,         \* read_values: <<>>, or its return value in a tuple
    atSignal,   \* read_values: iterations begun and readings printed when
                \* sigterm_handler first ran
    kfn,        \* keithley.py: the function running, connect or
                \* initialise_smu
    kargs,      \* keithley.py: its arguments
    kpc,        \* keithley.py: position of the calling thread in it
    link,       \* instrument object: whether it is connected, and the
                \* connection attempts made on it
    retry,      \* connect: the local retry
    slept,      \* connect: the durations of its time.sleep calls, ms
    kexc,       \* keithley.py: the exception the function raised
    int_time,   \* instrument: the integration time set on each terminal
    stab        \* device_stabilisation: measurements made so far

sendVars == <<impl, call, frame, pc, cmd, line_num, response, exc, tx, rx,
              script, ctrl, blanks, writes, reads, waits>>

smuVars == <<smuLevel, smuOutput, smuCalls>>

sweepVars == <<pattern, gate_voltages, channel_voltages, seq, item, counter,
               gi, ci, reading, readings, mark, acked>>

fdVars == <<ip, fd, wpc, wi, stop_event, results, sink, joined, samples,
            client, session, atStop>>

sigVars == <<stop_running, rpc, iters, held, printed, rv, atSignal>>

rdVars == <<probe, row, sigVars>>

kVars == <<kfn, kargs, kpc, link, retry, slept, kexc, int_time, stab>>

\* what the command helpers and the exchange never touch
seqVars == <<portTimeout, rdVars, kVars, smuVars, sweepVars, fdVars>>

vars == <<sendVars, seqVars>>

NoExc == [type |-> "none", parts |-> <<>>]

NoFrame == [fn |-> "none", command |-> <<>>, channel |-> "WSHL",
            seconds |-> DefaultSeconds, rpm |-> DefaultRpm]

Bump(n) == IF n < MaxCount THEN n + 1 ELSE n

(***************************************************************************)
(* microfluidics.py: the command helpers.                                  *)
(***************************************************************************)
compile_commandSwapped(command, subcommand, channel, seconds, rpm) ==
    command \o <<SP>> \o subcommand \o <<SP>> \o IntStr(Value(channel))
        \o <<SP, "-", "T", SP>> \o IntStr(rpm)
        \o <<SP, "-", "R", SP>> \o IntStr(seconds) \o <<NL>>

compile_command(command, subcommand, channel, seconds, rpm) ==
    command \o <<SP>> \o subcommand \o <<SP>> \o IntStr(Value(channel))
        \o <<SP, "-", "T", SP>> \o IntStr(seconds)
        \o <<SP, "-", "R", SP>> \o IntStr(rpm) \o <<NL>>

Leaves == {"prime", "wash", "vent", "collect"}

Wrappers == {"prime_wash_to_channel", "prime_reagent_to_channel",
             "wash_common", "wash_chip", "vent_common", "vent_chip2waste",
             "vent_chip2collection"}

\* the assert statement of each helper (helpers without one assert nothing)
PreconditionNone(f) == TRUE

\* helpers in which wash and prime test the channel as well
PreconditionChannels(f) ==
    CASE f.fn = "prime" ->
            /\ f.command \in {CHEM_WASH, DASH_C}
            /\ f.channel \in Range(REAGENT_CHANNELS \o <<"WSHL">>)
      [] f.fn = "prime_wash_to_channel" ->
            f.channel \in Range(REAGENT_CHANNELS \o <<"WSHL">>)
      [] f.fn = "prime_reagent_to_channel" ->
            f.channel \in Range(REAGENT_CHANNELS)
      [] f.fn = "wash" ->
            /\ f.command \in {DASH_C, COLLECTION, COMMON}
            /\ f.channel = "WSHL"
      [] f.fn = "vent" -> f.command \in {ALL, COMMON}
      [] f.fn = "collect" ->
            f.channel \in Range(REAGENT_CHANNELS \o <<"VENT">>)
      [] OTHER -> TRUE

Precondition(f) ==
    CASE f.fn = "prime" -> f.command \in {CHEM_WASH, DASH_C}
      [] f.fn = "prime_wash_to_channel" ->
            f.channel \in Range(REAGENT_CHANNELS \o <<"WSHL">>)
      [] f.fn = "prime_reagent_to_channel" ->
            f.channel \in Range(REAGENT_CHANNELS)
      [] f.fn = "wash" -> f.command \in {DASH_C, COLLECTION, COMMON}
      [] f.fn = "vent" -> f.command \in {ALL, COMMON}
      [] f.fn = "collect" ->
            f.channel \in Range(REAGENT_CHANNELS \o <<"VENT">>)
      [] OTHER -> TRUE

\* wrappers of prime that ask for different qualifiers: CHEM_WASH for the
\* wash reagent, -C for the reagent of the channel
DelegateReagentDashC(f) ==
    CASE f.fn = "prime_wash_to_channel" ->
            [f EXCEPT !.fn = "prime", !.command = CHEM_WASH]
      [] f.fn = "prime_reagent_to_channel" ->
            [f EXCEPT !.fn = "prime", !.command = DASH_C]
      [] f.fn = "wash_common" ->
            [f EXCEPT !.fn = "wash", !.command = COMMON, !.channel = "WSHL"]
      [] f.fn = "wash_chip" ->
            [f EXCEPT !.fn = "wash", !.command = COLLECTION,
                      !.channel = "WSHL"]
      [] f.fn = "vent_common" -> [f EXCEPT !.fn = "vent", !.command = COMMON]
      [] f.fn = "vent_chip2waste" -> [f EXCEPT !.fn = "vent", !.command = ALL]
      [] f.fn = "vent_chip2collection" ->
            [f EXCEPT !.fn = "collect", !.channel = "VENT"]

\* the call a wrapper makes
Delegate(f) ==
    CASE f.fn = "prime_wash_to_channel" ->
            [f EXCEPT !.fn = "prime", !.command = CHEM_WASH]
      [] f.fn = "prime_reagent_to_channel" ->
            [f EXCEPT !.fn = "prime", !.command = CHEM_WASH]
      [] f.fn = "wash_common" ->
            [f EXCEPT !.fn = "wash", !.command = COMMON, !.channel = "WSHL"]
      [] f.fn = "wash_chip" ->
            [f EXCEPT !.fn = "wash", !.command = COLLECTION,
                      !.channel = "WSHL"]
      [] f.fn = "vent_common" -> [f EXCEPT !.fn = "vent", !.command = COMMON]
      [] f.fn = "vent_chip2waste" -> [f EXCEPT !.fn = "vent", !.command = ALL]
      [] f.fn = "vent_chip2collection" ->
            [f EXCEPT !.fn = "collect", !.channel = "VENT"]

\* the channel vent() puts into its command
VentChannelReagent == "CH01"

VentChannel == "WSHL"

\* the command text a leaf helper hands to send_and_wait_for_response
Line(f) ==
    CASE f.fn = "prime" ->
            compile_command(PRIME, f.command, f.channel, f.seconds, f.rpm)
      [] f.fn = "wash" ->
            compile_command(WASH, f.command, f.channel, f.seconds, f.rpm)
      [] f.fn = "vent" ->
            compile_command(PURGE, f.command, VentChannel, f.seconds, f.rpm)
      [] f.fn = "collect" ->
            compile_command(COLLECT, DASH_C, f.channel, f.seconds, f.rpm)

\* one helper body up to its call: a failed assert raises, a wrapper calls
\* the helper it wraps, a leaf compiles its command and calls
\* send_and_wait_for_response
HelperStep ==
    /\ pc = "call"
    /\ IF ~Precondition(frame)
       THEN /\ pc' = "raised"
            /\ exc' = [type |-> "AssertionError", parts |-> <<>>]
            /\ UNCHANGED <<frame, cmd, impl, line_num, response,
                           writes, reads, waits>>
       ELSE IF frame.fn \in Wrappers
       THEN /\ frame' = Delegate(frame)
            /\ UNCHANGED <<pc, exc, cmd, impl, line_num, response,
                           writes, reads, waits>>
       ELSE /\ cmd' = Line(frame)
            /\ impl' = "microfluidics"
            /\ line_num' = -1
            /\ response' = <<>>
            /\ pc' = "write"
            /\ reads' = 0
            /\ waits' = 0
            /\ UNCHANGED <<frame, exc, writes>>
    /\ UNCHANGED <<call, tx, rx, script, ctrl, blanks>>
    /\ UNCHANGED seqVars

(***************************************************************************)
(* send_and_wait_for_response (microfluidics.py and the copy kept in       *)
(* fluid_detection.py).                                                    *)
(***************************************************************************)
\* port.write(cmd.encode())
SendWrite ==
    /\ pc = "write"
    /\ tx' = Encode(cmd)
    /\ writes' = Bump(writes)
    /\ ctrl' = "busy"
    /\ blanks' = 0
    /\ pc' = "read"
    /\ UNCHANGED <<impl, call, frame, cmd, line_num, response, exc, rx,
                   script, reads, waits>>
    /\ UNCHANGED seqVars

\* where the loop goes after one response
NextPcErrAsFin(i, r) ==
    IF r = ERR \/ r = FIN THEN "returned"
    ELSE IF i = "microfluidics" THEN "sleep" ELSE "read"

NextPcNoWait(i, r) ==
    IF r = ERR THEN "raised" ELSE "returned"

NextPcFinIgnored(i, r) ==
    IF r = ERR THEN "raised"
    ELSE IF i = "microfluidics" THEN "sleep" ELSE "read"

NextPc(i, r) ==
    IF r = ERR THEN "raised"
    ELSE IF r = FIN THEN "returned"
    ELSE IF i = "microfluidics" THEN "sleep" ELSE "read"

\* the exception raised on ERR
ErrException(i, n, r, c) ==
    IF i = "microfluidics"
    THEN [type |-> "Exception",
          parts |-> <<IntStr(n), r, BytesRepr(Encode(c))>>]
    ELSE [type |-> "Exception", parts |-> <<IntStr(n)>>]

\* response = port.readline().decode().strip(), and the tests on it; a
\* readline on an empty buffer ends on the port's timeout with no bytes,
\* and blocks when the port has no timeout
SendRead ==
    /\ pc = "read"
    /\ rx # <<>> \/ portTimeout
    /\ LET line == IF rx = <<>> THEN <<>> ELSE Head(rx)
           r    == Strip(Decode(line))
       IN /\ rx' = IF rx = <<>> THEN rx ELSE Tail(rx)
          /\ response' = r
          /\ reads' = Bump(reads)
          /\ pc' = NextPc(impl, r)
          /\ exc' = IF NextPc(impl, r) = "raised"
                    THEN ErrException(impl, line_num, r, cmd)
                    ELSE exc
    /\ UNCHANGED <<impl, call, frame, cmd, line_num, tx, script, ctrl,
                   blanks, writes, waits>>
    /\ UNCHANGED seqVars

\* time.sleep(0.5)
SendSleep ==
    /\ pc = "sleep"
    /\ waits' = Bump(waits)
    /\ pc' = "read"
    /\ UNCHANGED <<impl, call, frame, cmd, line_num, response, exc, tx, rx,
                   script, ctrl, blanks, writes, reads>>
    /\ UNCHANGED seqVars

SendStep == SendWrite \/ SendRead \/ SendSleep

Finished == pc \in {"returned", "raised"}

(***************************************************************************)
(* The inputs of one send_and_wait_for_response call against a mock port   *)
(* that was preloaded with a response stream.                              *)
(***************************************************************************)
\* what one readline of the mock port may deliver: nothing (timeout), a
\* blank line, FIN, ERR, FIN wrapped in white space, another word
ReplyLines ==
    {<<>>, Encode(<<NL>>), Encode(FIN \o <<NL>>), Encode(ERR \o <<NL>>),
     Encode(<<SP>> \o FIN \o <<CR, NL>>), Encode(BUSY \o <<NL>>)}

Streams == UNION {[1..n -> ReplyLines] : n \in 0..MaxStream}

SampleCommands ==
    {compile_command(COLLECT, DASH_C, "CH01", 5, DefaultRpm),
     compile_command(PURGE, ALL, "WSHL", DefaultSeconds, DefaultRpm)}

(***************************************************************************)
(* A client of the command helpers, and the fluidic controller.            *)
(***************************************************************************)
Qualifiers == {CHEM_WASH, DASH_C, COLLECTION, COMMON, ALL, BOGUS}

HelperNames == Leaves \cup Wrappers

NoCall == [fn |-> "none", command |-> <<>>, channel |-> "WSHL",
           seconds |-> 0, rpm |-> 0, kw |-> {}]

\* the calls a client can make of helper fn: kw holds the names of the
\* optional arguments it passes
Calls(fn) ==
    {[fn |-> fn, command |-> q, channel |-> ch,
      seconds |-> sr[1], rpm |-> sr[2], kw |-> sr[3]] :
        q \in (IF fn \in {"prime", "wash", "vent"} THEN Qualifiers
               ELSE {<<>>}),
        ch \in (IF fn \in {"prime", "prime_wash_to_channel",
                           "prime_reagent_to_channel", "wash", "collect"}
                THEN Channel ELSE {"WSHL"}),
        sr \in {<<0, 0, {}>>, <<1, 0, {"seconds"}>>, <<0, 7, {"rpm"}>>,
                <<120, 7, {"seconds", "rpm"}>>}}

\* binding of the arguments of a call, defaults included
Bind(c) ==
    [fn |-> c.fn, command |-> c.command, channel |-> c.channel,
     seconds |-> IF "seconds" \in c.kw THEN c.seconds ELSE DefaultSeconds,
     rpm |-> IF "rpm" \in c.kw THEN c.rpm ELSE DefaultRpm]

Call ==
    /\ pc \in {"idle", "returned", "raised"}
    /\ \E fn \in HelperNames : \E c \in Calls(fn) :
            /\ call' = c
            /\ frame' = Bind(c)
    /\ pc' = "call"
    /\ cmd' = <<>>
    /\ response' = <<>>
    /\ exc' = NoExc
    /\ tx' = <<>>
    /\ writes' = 0
    /\ reads' = 0
    /\ waits' = 0
    /\ UNCHANGED <<impl, line_num, rx, script, ctrl, blanks>>
    /\ UNCHANGED seqVars

\* the controller finishes the command it is running and answers
CtrlReply ==
    /\ ctrl = "busy"
    /\ \E word \in {FIN, ERR} : rx' = Append(rx, Encode(word \o <<NL>>))
    /\ ctrl' = "idle"
    /\ UNCHANGED <<impl, call, frame, pc, cmd, line_num, response, exc, tx,
                   script, blanks, writes, reads, waits>>
    /\ UNCHANGED seqVars

\* the controller, still running the command, sends a blank line ("not yet")
CtrlBlank ==
    /\ ctrl = "busy"
    /\ blanks < MaxBlank
    /\ rx' = Append(rx, Encode(<<NL>>))
    /\ blanks' = blanks + 1
    /\ UNCHANGED <<impl, call, frame, pc, cmd, line_num, response, exc, tx,
                   script, ctrl, writes, reads, waits>>
    /\ UNCHANGED seqVars

(***************************************************************************)
(* The source-measure unit, as the sequencers use it.  Voltages are in     *)
(* millivolts.  apply_voltage sets the source level of a terminal and      *)
(* switches its output on; a measurement reads the level of a terminal     *)
(* whose output is on and zero otherwise.                                  *)
(***************************************************************************)
Terminals == {"smua", "smub"}

ApplyVoltage(term, v) ==
    /\ smuLevel' = [smuLevel EXCEPT ![term] = v]
    /\ smuOutput' = [smuOutput EXCEPT ![term] = "on"]
    /\ smuCalls' = smuCalls + 1

OutputOff(term) ==
    /\ smuOutput' = [smuOutput EXCEPT ![term] = "off"]
    /\ smuCalls' = smuCalls + 1
    /\ UNCHANGED smuLevel

Measure(term) == IF smuOutput[term] = "on" THEN smuLevel[term] ELSE 0

(***************************************************************************)
(* Measured values.  The instrument returns floats; a float is held as the *)
(* fraction it stands for, in lowest terms with a positive denominator.    *)
(***************************************************************************)
RECURSIVE GCD(_, _)
GCD(a, b) == IF b = 0 THEN a ELSE GCD(b, a % b)

Abs(n) == IF n < 0 THEN 0 - n ELSE n

Rat(n, d) ==
    LET g == GCD(Abs(n), Abs(d))
        sgn == IF d < 0 THEN -1 ELSE 1
    IN [num |-> sgn * (n \div g), den |-> sgn * (d \div g)]

\* what the / operator raises on a zero divisor
ZeroDivisionError == [type |-> "ZeroDivisionError"]

\* a / b
RatDiv(a, b) ==
    IF a = ZeroDivisionError \/ b = ZeroDivisionError THEN ZeroDivisionError
    ELSE IF b.num = 0 THEN ZeroDivisionError
    ELSE Rat(a.num * b.den, a.den * b.num)

\* abs(a)
RatAbs(a) ==
    IF a = ZeroDivisionError THEN ZeroDivisionError
    ELSE [num |-> Abs(a.num), den |-> a.den]

\* a voltage of mv millivolts, in volts
Volts(mv) == Rat(mv, 1000)

\* a current of ua microamperes, in amperes
Amps(ua) == Rat(ua, 1000000)

\* the empty string
EmptyText == [text |-> <<>>]

\* the resistance with the division taken whatever the current is
ResistanceNoGuard(drain_v, drain_c) ==
    RatAbs(RatDiv(RatDiv(drain_v, drain_c), Rat(1000, 1)))

\* the resistance in ohms: the division by 1000 left out
ResistanceOhms(drain_v, drain_c) ==
    IF drain_c.num = 0 THEN EmptyText
    ELSE RatAbs(RatDiv(drain_v, drain_c))

\* "" if drain_c == 0.0 else abs((drain_v/drain_c)/1000)
Resistance(drain_v, drain_c) ==
    IF drain_c.num = 0 THEN EmptyText
    ELSE RatAbs(RatDiv(RatDiv(drain_v, drain_c), Rat(1000, 1)))

\* run_smu: the _reading of iteration _i
RunSmuReading(i, drain_v, drain_c, gate_v, gate_c) ==
    [t |-> i, drain_voltage |-> drain_v, drain_current |-> drain_c,
     drain_resistance |-> Resistance(drain_v, drain_c),
     gate_voltage |-> gate_v, gate_current |-> gate_c]

\* read_values: the _reading tuple taken at time t
ReadValuesReading(t, drain_v, drain_c, gate_v, gate_c) ==
    <<t, drain_v, drain_c, Resistance(drain_v, drain_c), gate_v, gate_c>>

NoProbe ==
    [program |-> "none", t |-> 0, drain_v |-> 0, drain_c |-> 0,
     gate_v |-> 0, gate_c |-> 0]

NoRow == [status |-> "none"]

\* the values one iteration can measure: millivolts and microamperes
Probes ==
    [program : {"run_smu", "read_values"}, t : {0, 1},
     drain_v : {-1000, 0, 50, 1000}, drain_c : {-1000, -3, 0, 2, 1000},
     gate_v : {1000}, gate_c : {0, 5}]

\* one iteration of the loop of run_smu or of read_values, from the
\* return of its measurements to the reading it builds
BuildReading ==
    /\ probe # NoProbe
    /\ row = NoRow
    /\ LET dv == Volts(probe.drain_v)
           dc == Amps(probe.drain_c)
           gv == Volts(probe.gate_v)
           gc == Amps(probe.gate_c)
           value == IF probe.program = "run_smu"
                    THEN RunSmuReading(probe.t, dv, dc, gv, gc)
                    ELSE ReadValuesReading(probe.t, dv, dc, gv, gc)
       IN row' = IF Resistance(dv, dc) = ZeroDivisionError
                 THEN [status |-> "raised", exc |-> ZeroDivisionError]
                 ELSE [status |-> "built", value |-> value]
    /\ UNCHANGED <<probe, sigVars>>
    /\ UNCHANGED <<sendVars, portTimeout, kVars, smuVars, sweepVars, fdVars>>

(***************************************************************************)
(* gfet/keithley.py: connect, initialise_smu, __integration_time__,        *)
(* device_stabilisation.  The constructor of the instrument object makes   *)
(* one connection attempt; a call on an instrument that is not connected   *)
(* raises KeithleyIOError.                                                 *)
(***************************************************************************)
RatLess(a, b) == a.num * b.den < b.num * a.den

RatMul(a, b) == Rat(a.num * b.num, a.den * b.den)

NoArgs == [retries |-> 0, seconds_between_retries |-> 0,
           line_frequency |-> 0, nplc |-> Rat(0, 1)]

NoLink == [connected |-> FALSE, attempts |-> 0]

NoTime == [t \in Terminals |-> [text |-> <<>>]]

\* the two tests of __integration_time__
FrequencyOk(line_frequency) == line_frequency \in {50, 60}

NplcOk(nplc) ==
    ~(RatLess(nplc, Rat(1, 1000)) \/ RatLess(Rat(25, 1), nplc))

\* its result: nplc * (1 / line_frequency)
IntegrationTime(line_frequency, nplc) ==
    RatMul(nplc, RatDiv(Rat(1, 1), Rat(line_frequency, 1)))

\* connect's default seconds_between_retries, milliseconds
DefaultDelay == 500

\* the measurements of device_stabilisation: 3 rounds of 4
StabilisationCalls == 12

\* Keithley2600(visa_address, ...): the constructor makes a connection
\* attempt; connect then sets retry = 2, initialise_smu goes on to
\* __integration_time__
Construct ==
    /\ kpc = "construct"
    /\ \E ok \in BOOLEAN : link' = [connected |-> ok, attempts |-> 1]
    /\ retry' = IF kfn = "connect" THEN 2 ELSE retry
    /\ kpc' = IF kfn = "connect" THEN "while" ELSE "frequency"
    /\ UNCHANGED <<kfn, kargs, slept, kexc, int_time, stab>>
    /\ UNCHANGED <<sendVars, portTimeout, rdVars, smuVars, sweepVars,
                   fdVars>>

\* connect: while not inst.connected
ConnectWhile ==
    /\ kpc = "while"
    /\ kpc' = IF link.connected THEN "returned" ELSE "test"
    /\ UNCHANGED <<kfn, kargs, link, retry, slept, kexc, int_time, stab>>
    /\ UNCHANGED <<sendVars, portTimeout, rdVars, smuVars, sweepVars,
                   fdVars>>

\* a test that gives up one attempt early
ConnectTestEarly ==
    /\ kpc = "test"
    /\ IF retry >= kargs.retries
       THEN /\ kpc' = "raised"
            /\ kexc' = "KeithleyIOError"
       ELSE /\ kpc' = "attempt"
            /\ UNCHANGED kexc
    /\ UNCHANGED <<kfn, kargs, link, retry, slept, int_time, stab>>
    /\ UNCHANGED <<sendVars, portTimeout, rdVars, smuVars, sweepVars,
                   fdVars>>

\* connect: if retry > retries: raise KeithleyIOError
ConnectTest ==
    /\ kpc = "test"
    /\ IF retry > kargs.retries
       THEN /\ kpc' = "raised"
            /\ kexc' = "KeithleyIOError"
       ELSE /\ kpc' = "attempt"
            /\ UNCHANGED kexc
    /\ UNCHANGED <<kfn, kargs, link, retry, slept, int_time, stab>>
    /\ UNCHANGED <<sendVars, portTimeout, rdVars, smuVars, sweepVars,
                   fdVars>>

\* connect: if inst.connect(): return inst
ConnectAttempt ==
    /\ kpc = "attempt"
    /\ \E ok \in BOOLEAN :
            /\ link' = [connected |-> ok, attempts |-> link.attempts + 1]
            /\ kpc' = IF ok THEN "returned" ELSE "sleep"
    /\ UNCHANGED <<kfn, kargs, retry, slept, kexc, int_time, stab>>
    /\ UNCHANGED <<sendVars, portTimeout, rdVars, smuVars, sweepVars,
                   fdVars>>

\* connect: time.sleep(seconds_between_retries); retry = retry + 1
ConnectSleep ==
    /\ kpc = "sleep"
    /\ slept' = Append(slept, kargs.seconds_between_retries)
    /\ retry' = retry + 1
    /\ kpc' = "while"
    /\ UNCHANGED <<kfn, kargs, link, kexc, int_time, stab>>
    /\ UNCHANGED <<sendVars, portTimeout, rdVars, smuVars, sweepVars,
                   fdVars>>

\* __integration_time__: the test of line_frequency
ValidateFrequency ==
    /\ kpc = "frequency"
    /\ IF FrequencyOk(kargs.line_frequency)
       THEN /\ kpc' = "nplc"
            /\ UNCHANGED kexc
       ELSE /\ kpc' = "raised"
            /\ kexc' = "ValueError"
    /\ UNCHANGED <<kfn, kargs, link, retry, slept, int_time, stab>>
    /\ UNCHANGED <<sendVars, portTimeout, rdVars, smuVars, sweepVars,
                   fdVars>>

\* __integration_time__: the test of nplc
ValidateNplc ==
    /\ kpc = "nplc"
    /\ IF NplcOk(kargs.nplc)
       THEN /\ kpc' = "time_a"
            /\ UNCHANGED kexc
       ELSE /\ kpc' = "raised"
            /\ kexc' = "ValueError"
    /\ UNCHANGED <<kfn, kargs, link, retry, slept, int_time, stab>>
    /\ UNCHANGED <<sendVars, portTimeout, rdVars, smuVars, sweepVars,
                   fdVars>>

\* initialise_smu: smu.set_integration_time for smua, then for smub
SetIntegrationTime ==
    /\ kpc \in {"time_a", "time_b"}
    /\ IF link.connected
       THEN /\ int_time' =
                [int_time EXCEPT ![IF kpc = "time_a" THEN "smua"
                                   ELSE "smub"] =
                    IntegrationTime(kargs.line_frequency, kargs.nplc)]
            /\ smuCalls' = smuCalls + 1
            /\ kpc' = IF kpc = "time_a" THEN "time_b" ELSE "bias_a"
            /\ UNCHANGED kexc
       ELSE /\ kpc' = "raised"
            /\ kexc' = "KeithleyIOError"
            /\ UNCHANGED <<int_time, smuCalls>>
    /\ UNCHANGED <<smuLevel, smuOutput>>
    /\ UNCHANGED <<kfn, kargs, link, retry, slept, stab>>
    /\ UNCHANGED <<sendVars, portTimeout, rdVars, sweepVars, fdVars>>

\* device_stabilisation: apply_voltage(smua, 0.3), apply_voltage(smub, 0.5)
StabiliseApply ==
    /\ kpc \in {"bias_a", "bias_b"}
    /\ IF kpc = "bias_a" THEN ApplyVoltage("smua", 300)
       ELSE ApplyVoltage("smub", 500)
    /\ kpc' = IF kpc = "bias_a" THEN "bias_b" ELSE "settle"
    /\ UNCHANGED <<kfn, kargs, link, retry, slept, kexc, int_time, stab>>
    /\ UNCHANGED <<sendVars, portTimeout, rdVars, sweepVars, fdVars>>

\* device_stabilisation: the measurements, their values dropped
StabiliseMeasure ==
    /\ kpc = "settle"
    /\ stab' = stab + 1
    /\ smuCalls' = smuCalls + 1
    /\ kpc' = IF stab + 1 = StabilisationCalls THEN "off_a" ELSE "settle"
    /\ UNCHANGED <<smuLevel, smuOutput>>
    /\ UNCHANGED <<kfn, kargs, link, retry, slept, kexc, int_time>>
    /\ UNCHANGED <<sendVars, portTimeout, rdVars, sweepVars, fdVars>>

\* an initialise_smu that leaves the drain output on
InitialiseOffGateOnly ==
    /\ kpc \in {"off_a", "off_b"}
    /\ OutputOff("smua")
    /\ kpc' = IF kpc = "off_a" THEN "off_b" ELSE "returned"
    /\ UNCHANGED <<kfn, kargs, link, retry, slept, kexc, int_time, stab>>
    /\ UNCHANGED <<sendVars, portTimeout, rdVars, sweepVars, fdVars>>

\* initialise_smu: both source outputs are set to OUTPUT_OFF; return smu
InitialiseOff ==
    /\ kpc \in {"off_a", "off_b"}
    /\ OutputOff(IF kpc = "off_a" THEN "smua" ELSE "smub")
    /\ kpc' = IF kpc = "off_a" THEN "off_b" ELSE "returned"
    /\ UNCHANGED <<kfn, kargs, link, retry, slept, kexc, int_time, stab>>
    /\ UNCHANGED <<sendVars, portTimeout, rdVars, sweepVars, fdVars>>

Connect ==
    \/ Construct
    \/ ConnectWhile
    \/ ConnectTest
    \/ ConnectAttempt
    \/ ConnectSleep

Initialise ==
    \/ Construct
    \/ ValidateFrequency
    \/ ValidateNplc
    \/ SetIntegrationTime
    \/ StabiliseApply
    \/ StabiliseMeasure
    \/ InitialiseOff

(***************************************************************************)
(* isswisafre.py: run_experiment, run_pattern, pump_and_read, take_reading.*)
(***************************************************************************)
\* the call each command closure of run_experiment makes
ClosureCall(name, seconds) ==
    CASE name = "collect_ch01" ->
            [fn |-> "collect", command |-> <<>>, channel |-> "CH01",
             seconds |-> seconds, rpm |-> 36, kw |-> {"seconds", "rpm"}]
      [] name = "collect_ch02" ->
            [fn |-> "collect", command |-> <<>>, channel |-> "CH02",
             seconds |-> seconds, rpm |-> 36, kw |-> {"seconds", "rpm"}]
      [] name = "wash_chip" ->
            [fn |-> "wash_chip", command |-> <<>>, channel |-> "WSHL",
             seconds |-> seconds, rpm |-> 36, kw |-> {"seconds", "rpm"}]

\* the seconds argument pump_and_read passes to the command closure
CommandSeconds == 1

\* the items a pattern is drawn from: a command closure and its dwell
Items ==
    {[command |-> "collect_ch01", seconds |-> 2],
     [command |-> "wash_chip", seconds |-> 1],
     [command |-> "collect_ch02", seconds |-> 0],
     [command |-> "wash_chip", seconds |-> -1]}

Patterns == UNION {[1..n -> Items] : n \in 0..MaxPattern}

GateLists == {<<>>, <<0>>, <<0, 1>>}

ChannelVoltages == {50}

NoReading ==
    [timestamp |-> 0, provided_gate_voltage |-> 0,
     provided_channel_voltage |-> 0, drain_voltage |-> 0,
     drain_current |-> 0, measured_gate_voltage |-> 0,
     measured_gate_current |-> 0]

\* run_experiment: initialise_smu returned; the port is opened, run_pattern
\* makes the generator and the writer loop begins to advance it
RunPattern ==
    /\ kfn = "initialise_smu"
    /\ kpc = "returned"
    /\ seq = "none"
    /\ seq' = "for_item"
    /\ UNCHANGED acked
    /\ UNCHANGED <<pattern, gate_voltages, channel_voltages, item, counter,
                   gi, ci, reading, readings, mark>>
    /\ UNCHANGED <<sendVars, portTimeout, rdVars, kVars, smuVars, fdVars>>

\* run_pattern: for item in pattern; pump_and_read: _counter = 0
ForItem ==
    /\ seq = "for_item"
    /\ IF item <= Len(pattern)
       THEN /\ counter' = 0
            /\ seq' = "while"
       ELSE /\ seq' = "done"
            /\ UNCHANGED counter
    /\ UNCHANGED acked
    /\ UNCHANGED <<pattern, gate_voltages, channel_voltages, item, gi, ci,
                   reading, readings, mark>>
    /\ UNCHANGED <<sendVars, portTimeout, rdVars, kVars, smuVars, fdVars>>

\* a loop test that lets _counter reach seconds
WhileTestInclusive ==
    /\ seq = "while"
    /\ IF counter <= pattern[item].seconds
       THEN /\ seq' = "command"
            /\ UNCHANGED item
       ELSE /\ item' = item + 1
            /\ seq' = "for_item"
    /\ UNCHANGED acked
    /\ UNCHANGED <<pattern, gate_voltages, channel_voltages, counter, gi, ci,
                   reading, readings, mark>>
    /\ UNCHANGED <<sendVars, portTimeout, rdVars, kVars, smuVars, fdVars>>

\* pump_and_read: while _counter < seconds
WhileTest ==
    /\ seq = "while"
    /\ IF counter < pattern[item].seconds
       THEN /\ seq' = "command"
            /\ UNCHANGED item
       ELSE /\ item' = item + 1
            /\ seq' = "for_item"
    /\ UNCHANGED acked
    /\ UNCHANGED <<pattern, gate_voltages, channel_voltages, counter, gi, ci,
                   reading, readings, mark>>
    /\ UNCHANGED <<sendVars, portTimeout, rdVars, kVars, smuVars, fdVars>>

\* a pump_and_read that passes the whole dwell to the command closure
IssueCommandWholeDwell ==
    /\ seq = "command"
    /\ call' = ClosureCall(pattern[item].command, pattern[item].seconds)
    /\ frame' = Bind(call')
    /\ pc' = "call"
    /\ cmd' = <<>>
    /\ response' = <<>>
    /\ exc' = NoExc
    /\ tx' = <<>>
    /\ writes' = 0
    /\ reads' = 0
    /\ waits' = 0
    /\ mark' = Len(readings)
    /\ seq' = "await"
    /\ UNCHANGED <<impl, line_num, rx, script, ctrl, blanks>>
    /\ UNCHANGED acked
    /\ UNCHANGED <<pattern, gate_voltages, channel_voltages, item, counter,
                   gi, ci, reading, readings>>
    /\ UNCHANGED <<portTimeout, rdVars, kVars, smuVars, fdVars>>

\* pump_and_read: command(1)
IssueCommand ==
    /\ seq = "command"
    /\ call' = ClosureCall(pattern[item].command, CommandSeconds)
    /\ frame' = Bind(call')
    /\ pc' = "call"
    /\ cmd' = <<>>
    /\ response' = <<>>
    /\ exc' = NoExc
    /\ tx' = <<>>
    /\ writes' = 0
    /\ reads' = 0
    /\ waits' = 0
    /\ mark' = Len(readings)
    /\ seq' = "await"
    /\ UNCHANGED <<impl, line_num, rx, script, ctrl, blanks>>
    /\ UNCHANGED acked
    /\ UNCHANGED <<pattern, gate_voltages, channel_voltages, item, counter,
                   gi, ci, reading, readings>>
    /\ UNCHANGED <<portTimeout, rdVars, kVars, smuVars, fdVars>>

\* a generator that starts the sweep without waiting for command(1) to
\* return
CommandReturnedEarly ==
    /\ seq = "await"
    /\ pc \in {"read", "sleep", "returned"}
    /\ gi' = 1
    /\ ci' = 1
    /\ seq' = "for_pair"
    /\ acked' = acked + 1
    /\ UNCHANGED <<pattern, gate_voltages, channel_voltages, item, counter,
                   reading, readings, mark>>
    /\ UNCHANGED <<sendVars, portTimeout, rdVars, kVars, smuVars, fdVars>>

\* command(1) returned: the sweep starts
CommandReturned ==
    /\ seq = "await"
    /\ pc = "returned"
    /\ gi' = 1
    /\ ci' = 1
    /\ seq' = "for_pair"
    /\ acked' = acked + 1
    /\ UNCHANGED <<pattern, gate_voltages, channel_voltages, item, counter,
                   reading, readings, mark>>
    /\ UNCHANGED <<sendVars, portTimeout, rdVars, kVars, smuVars, fdVars>>

\* an exception of command(1) that is swallowed: the pattern goes on
CommandRaisedSkipped ==
    /\ seq = "await"
    /\ pc = "raised"
    /\ seq' = "increment"
    /\ UNCHANGED acked
    /\ UNCHANGED <<pattern, gate_voltages, channel_voltages, item, counter,
                   gi, ci, reading, readings, mark>>
    /\ UNCHANGED <<sendVars, portTimeout, rdVars, kVars, smuVars, fdVars>>

\* command(1) raised: the exception leaves the generators
CommandRaised ==
    /\ seq = "await"
    /\ pc = "raised"
    /\ seq' = "aborted"
    /\ UNCHANGED acked
    /\ UNCHANGED <<pattern, gate_voltages, channel_voltages, item, counter,
                   gi, ci, reading, readings, mark>>
    /\ UNCHANGED <<sendVars, portTimeout, rdVars, kVars, smuVars, fdVars>>

\* an inner loop that takes the first channel voltage only
ForPairOneChannel ==
    /\ seq = "for_pair"
    /\ IF gi > Len(gate_voltages)
       THEN /\ seq' = "off_a"
            /\ UNCHANGED <<gi, ci>>
       ELSE IF ci > 1
       THEN /\ gi' = gi + 1
            /\ ci' = 1
            /\ UNCHANGED seq
       ELSE /\ seq' = "apply_gate"
            /\ UNCHANGED <<gi, ci>>
    /\ UNCHANGED acked
    /\ UNCHANGED <<pattern, gate_voltages, channel_voltages, item, counter,
                   reading, readings, mark>>
    /\ UNCHANGED <<sendVars, portTimeout, rdVars, kVars, smuVars, fdVars>>

\* for gatevtg in gate_voltages: for chnvtg in channel_voltages
ForPair ==
    /\ seq = "for_pair"
    /\ IF gi > Len(gate_voltages)
       THEN /\ seq' = "off_a"
            /\ UNCHANGED <<gi, ci>>
       ELSE IF ci > Len(channel_voltages)
       THEN /\ gi' = gi + 1
            /\ ci' = 1
            /\ UNCHANGED seq
       ELSE /\ seq' = "apply_gate"
            /\ UNCHANGED <<gi, ci>>
    /\ UNCHANGED acked
    /\ UNCHANGED <<pattern, gate_voltages, channel_voltages, item, counter,
                   reading, readings, mark>>
    /\ UNCHANGED <<sendVars, portTimeout, rdVars, kVars, smuVars, fdVars>>

\* take_reading: smu.apply_voltage(smu.smua, gate_voltage)
ApplyGate ==
    /\ seq = "apply_gate"
    /\ ApplyVoltage("smua", gate_voltages[gi])
    /\ seq' = "apply_channel"
    /\ UNCHANGED acked
    /\ UNCHANGED <<pattern, gate_voltages, channel_voltages, item, counter,
                   gi, ci, reading, readings, mark>>
    /\ UNCHANGED <<sendVars, portTimeout, rdVars, kVars, fdVars>>

\* a take_reading that biases the channel with the first channel voltage
\* whatever its argument
ApplyChannelStale ==
    /\ seq = "apply_channel"
    /\ ApplyVoltage("smub", channel_voltages[1])
    /\ reading' = [NoReading EXCEPT
                        !.timestamp = smuCalls + 1,
                        !.provided_gate_voltage = gate_voltages[gi],
                        !.provided_channel_voltage = channel_voltages[ci]]
    /\ seq' = "drain_voltage"
    /\ UNCHANGED acked
    /\ UNCHANGED <<pattern, gate_voltages, channel_voltages, item, counter,
                   gi, ci, readings, mark>>
    /\ UNCHANGED <<sendVars, portTimeout, rdVars, kVars, fdVars>>

\* take_reading: smu.apply_voltage(smu.smub, channel_voltage); then the
\* first three fields of the reading
ApplyChannel ==
    /\ seq = "apply_channel"
    /\ ApplyVoltage("smub", channel_voltages[ci])
    /\ reading' = [NoReading EXCEPT
                        !.timestamp = smuCalls + 1,
                        !.provided_gate_voltage = gate_voltages[gi],
                        !.provided_channel_voltage = channel_voltages[ci]]
    /\ seq' = "drain_voltage"
    /\ UNCHANGED acked
    /\ UNCHANGED <<pattern, gate_voltages, channel_voltages, item, counter,
                   gi, ci, readings, mark>>
    /\ UNCHANGED <<sendVars, portTimeout, rdVars, kVars, fdVars>>

\* take_reading: the four measurements, in the order of the tuple
MeasureStep ==
    /\ seq \in {"drain_voltage", "drain_current", "measured_gate_voltage",
                "measured_gate_current"}
    /\ reading' =
         CASE seq = "drain_voltage" ->
                [reading EXCEPT !.drain_voltage = Measure("smub")]
           [] seq = "drain_current" ->
                [reading EXCEPT !.drain_current = Measure("smub")]
           [] seq = "measured_gate_voltage" ->
                [reading EXCEPT !.measured_gate_voltage = Measure("smua")]
           [] seq = "measured_gate_current" ->
                [reading EXCEPT !.measured_gate_current = Measure("smua")]
    /\ seq' = CASE seq = "drain_voltage" -> "drain_current"
                [] seq = "drain_current" -> "measured_gate_voltage"
                [] seq = "measured_gate_voltage" -> "measured_gate_current"
                [] seq = "measured_gate_current" -> "yield"
    /\ smuCalls' = smuCalls + 1
    /\ UNCHANGED <<smuLevel, smuOutput>>
    /\ UNCHANGED acked
    /\ UNCHANGED <<pattern, gate_voltages, channel_voltages, item, counter,
                   gi, ci, readings, mark>>
    /\ UNCHANGED <<sendVars, portTimeout, rdVars, kVars, fdVars>>

\* yield take_reading(...): the consumer writes the row and asks for more
Yield ==
    /\ seq = "yield"
    /\ readings' = Append(readings, reading)
    /\ ci' = ci + 1
    /\ seq' = "for_pair"
    /\ UNCHANGED acked
    /\ UNCHANGED <<pattern, gate_voltages, channel_voltages, item, counter,
                   gi, reading, mark>>
    /\ UNCHANGED <<sendVars, portTimeout, rdVars, kVars, smuVars, fdVars>>

\* smu.smua.source.output = OUTPUT_OFF, then the same for smub
SwitchOff ==
    /\ seq \in {"off_a", "off_b"}
    /\ OutputOff(IF seq = "off_a" THEN "smua" ELSE "smub")
    /\ seq' = IF seq = "off_a" THEN "off_b" ELSE "increment"
    /\ UNCHANGED acked
    /\ UNCHANGED <<pattern, gate_voltages, channel_voltages, item, counter,
                   gi, ci, reading, readings, mark>>
    /\ UNCHANGED <<sendVars, portTimeout, rdVars, kVars, fdVars>>

\* a counter that advances by two
IncrementByTwo ==
    /\ seq = "increment"
    /\ counter' = counter + 2
    /\ seq' = "while"
    /\ UNCHANGED acked
    /\ UNCHANGED <<pattern, gate_voltages, channel_voltages, item, gi, ci,
                   reading, readings, mark>>
    /\ UNCHANGED <<sendVars, portTimeout, rdVars, kVars, smuVars, fdVars>>

\* _counter = _counter + 1
Increment ==
    /\ seq = "increment"
    /\ counter' = counter + 1
    /\ seq' = "while"
    /\ UNCHANGED acked
    /\ UNCHANGED <<pattern, gate_voltages, channel_voltages, item, gi, ci,
                   reading, readings, mark>>
    /\ UNCHANGED <<sendVars, portTimeout, rdVars, kVars, smuVars, fdVars>>

(***************************************************************************)
(* fluid_detection.py: run, run_fluid_detection_loop, start_smu and its    *)
(* worker, reset_microfluidics_device.                                     *)
(***************************************************************************)
Stmt(op, chan, fn, seconds) ==
    [op |-> op, chan |-> chan, fn |-> fn, seconds |-> seconds]

\* start_smu with the thread started before the biases are applied
StartSmuBiasLate(chan) ==
    <<Stmt("event", chan, "none", 0), Stmt("thread_start", chan, "none", 0),
      Stmt("apply_gate", chan, "none", 0),
      Stmt("apply_drain", chan, "none", 0)>>

\* the statements start_smu runs on the calling thread
StartSmu(chan) ==
    <<Stmt("event", chan, "none", 0), Stmt("apply_gate", chan, "none", 0),
      Stmt("apply_drain", chan, "none", 0),
      Stmt("thread_start", chan, "none", 0)>>

\* a repetition that vents before it collects
PlugVentFirst(chan) ==
    <<Stmt("call", chan, "vent_chip2collection", 1),
      Stmt("call", chan, "collect", 5)>>

\* the five collect / vent repetitions
Plug(chan) ==
    <<Stmt("call", chan, "collect", 5),
      Stmt("call", chan, "vent_chip2collection", 1)>>

Plugs(chan) ==
    Plug(chan) \o Plug(chan) \o Plug(chan) \o Plug(chan) \o Plug(chan)

\* the body of the loop with the worker started after the commands
LoopBodyStartLate(chan) ==
    <<Stmt("call", chan, "vent_chip2collection", 120)>>
        \o Plugs(chan)
        \o <<Stmt("call", chan, "collect", 90),
             Stmt("call", chan, "vent_chip2collection", 120)>>
        \o StartSmu(chan)
        \o <<Stmt("stop", chan, "none", 0), Stmt("join", chan, "none", 0)>>

\* the body of the loop without the join
LoopBodyNoJoin(chan) ==
    StartSmu(chan)
        \o <<Stmt("call", chan, "vent_chip2collection", 120)>>
        \o Plugs(chan)
        \o <<Stmt("call", chan, "collect", 90),
             Stmt("call", chan, "vent_chip2collection", 120),
             Stmt("stop", chan, "none", 0)>>

\* run_fluid_detection_loop: the body of `for chan in REAGENT_CHANNELS`
LoopBody(chan) ==
    StartSmu(chan)
        \o <<Stmt("call", chan, "vent_chip2collection", 120)>>
        \o Plugs(chan)
        \o <<Stmt("call", chan, "collect", 90),
             Stmt("call", chan, "vent_chip2collection", 120),
             Stmt("stop", chan, "none", 0), Stmt("join", chan, "none", 0)>>

RECURSIVE Loop(_)
Loop(chans) ==
    IF chans = <<>> THEN <<>> ELSE LoopBody(Head(chans)) \o Loop(Tail(chans))

reset_microfluidics_device ==
    <<Stmt("call", "none", "wash_common", DefaultSeconds),
      Stmt("call", "none", "wash_chip", DefaultSeconds),
      Stmt("call", "none", "vent_common", DefaultSeconds),
      Stmt("call", "none", "vent_chip2waste", DefaultSeconds)>>

\* run: the loop over the reagent channels, then the reset
RunProgram == Loop(REAGENT_CHANNELS) \o reset_microfluidics_device

\* a client of start_smu that runs one session: it calls start_smu, and
\* later the stop function and the join of the thread start_smu returned
SessionProgram(chan) ==
    StartSmu(chan)
        \o <<Stmt("stop", chan, "none", 0), Stmt("join", chan, "none", 0)>>

\* run_fluid_pattern(mfd_port, chan): the commands of one channel
run_fluid_pattern(chan) ==
    <<Stmt("call", chan, "vent_chip2collection", 120)>>
        \o Plugs(chan)
        \o <<Stmt("call", chan, "collect", 90),
             Stmt("call", chan, "vent_chip2collection", 120)>>

\* a client of start_smu that calls the returned stop function more than
\* once: twice before it joins the thread and once more after the join
StopProgram(chan) ==
    StartSmu(chan)
        \o <<Stmt("stop", chan, "none", 0), Stmt("stop", chan, "none", 0),
             Stmt("join", chan, "none", 0), Stmt("stop", chan, "none", 0)>>

\* a client that runs two sessions on one channel, one after the other:
\* start_smu, stop, join, and the same again
RestartProgram(chan) == SessionProgram(chan) \o SessionProgram(chan)

\* the statements the sequencer thread runs
Program ==
    IF client = "start_smu" THEN SessionProgram(session)
    ELSE IF client = "stop_smu" THEN StopProgram(session)
    ELSE IF client = "restart_smu" THEN RestartProgram(session)
    ELSE IF client = "run_fluid_pattern" THEN run_fluid_pattern(session)
    ELSE RunProgram

\* the sampling rounds the workers may begin
Budget ==
    IF client \in {"start_smu", "stop_smu"} THEN MaxSessionSamples
    ELSE IF client = "restart_smu" THEN MaxSessionSamples + 1
    ELSE MaxSamples

\* the helper call a statement makes
StmtCall(st) ==
    IF st.chan = "none"
    THEN [fn |-> st.fn, command |-> <<>>, channel |-> "WSHL",
          seconds |-> 0, rpm |-> 0, kw |-> {}]
    ELSE [fn |-> st.fn, command |-> <<>>,
          channel |-> IF st.fn = "collect" THEN st.chan ELSE "WSHL",
          seconds |-> st.seconds, rpm |-> 0, kw |-> {"seconds"}]

\* start_smu's default bias, millivolts
DefaultGateVoltage == 1000

DefaultDrainVoltage == 50

Sessions == Range(REAGENT_CHANNELS)

Running == fd = "run" /\ ip <= Len(Program)

\* start_smu: stop_event = threading.Event()
FdEvent ==
    /\ Running
    /\ Program[ip].op = "event"
    /\ stop_event' = [stop_event EXCEPT ![Program[ip].chan] = FALSE]
    /\ ip' = ip + 1
    /\ UNCHANGED <<fd, wpc, wi, results, sink, joined, samples>>
    /\ UNCHANGED <<sendVars, portTimeout, rdVars, kVars, smuVars, sweepVars>>
    /\ UNCHANGED <<client, session, atStop>>

\* start_smu: the two apply_voltage calls
FdApply ==
    /\ Running
    /\ Program[ip].op \in {"apply_gate", "apply_drain"}
    /\ IF Program[ip].op = "apply_gate"
       THEN ApplyVoltage("smua", DefaultGateVoltage)
       ELSE ApplyVoltage("smub", DefaultDrainVoltage)
    /\ ip' = ip + 1
    /\ UNCHANGED <<fd, wpc, wi, stop_event, results, sink, joined, samples>>
    /\ UNCHANGED <<sendVars, portTimeout, rdVars, kVars, sweepVars>>
    /\ UNCHANGED <<client, session, atStop>>

\* start_smu: worker_thread.start(); the thread begins with _i = 0 and
\* _results = []
FdThreadStart ==
    /\ Running
    /\ Program[ip].op = "thread_start"
    /\ wpc' = [wpc EXCEPT ![Program[ip].chan] = "check"]
    /\ wi' = [wi EXCEPT ![Program[ip].chan] = 0]
    /\ results' = [results EXCEPT ![Program[ip].chan] = <<>>]
    /\ ip' = ip + 1
    /\ UNCHANGED <<fd, stop_event, sink, joined, samples>>
    /\ UNCHANGED <<sendVars, portTimeout, rdVars, kVars, smuVars, sweepVars>>
    /\ UNCHANGED <<client, session, atStop>>

\* a call of a command helper
FdCall ==
    /\ Running
    /\ Program[ip].op = "call"
    /\ call' = StmtCall(Program[ip])
    /\ frame' = Bind(call')
    /\ pc' = "call"
    /\ cmd' = <<>>
    /\ response' = <<>>
    /\ exc' = NoExc
    /\ tx' = <<>>
    /\ writes' = 0
    /\ reads' = 0
    /\ waits' = 0
    /\ fd' = "await"
    /\ UNCHANGED <<impl, line_num, rx, script, ctrl, blanks>>
    /\ UNCHANGED <<ip, wpc, wi, stop_event, results, sink, joined, samples>>
    /\ UNCHANGED <<portTimeout, rdVars, kVars, smuVars, sweepVars>>
    /\ UNCHANGED <<client, session, atStop>>

\* the helper returned
FdReturned ==
    /\ fd = "await"
    /\ pc = "returned"
    /\ fd' = "run"
    /\ ip' = ip + 1
    /\ UNCHANGED <<wpc, wi, stop_event, results, sink, joined, samples>>
    /\ UNCHANGED <<sendVars, portTimeout, rdVars, kVars, smuVars, sweepVars>>
    /\ UNCHANGED <<client, session, atStop>>

\* the helper raised: nothing catches it, run() is left
FdRaised ==
    /\ fd = "await"
    /\ pc = "raised"
    /\ fd' = "aborted"
    /\ UNCHANGED <<ip, wpc, wi, stop_event, results, sink, joined, samples>>
    /\ UNCHANGED <<sendVars, portTimeout, rdVars, kVars, smuVars, sweepVars>>
    /\ UNCHANGED <<client, session, atStop>>

\* a stop that flips the flag
FdStopToggle ==
    /\ Running
    /\ Program[ip].op = "stop"
    /\ stop_event' = [stop_event EXCEPT ![Program[ip].chan] = ~@]
    /\ ip' = ip + 1
    /\ UNCHANGED <<fd, wpc, wi, results, sink, joined, samples>>
    /\ UNCHANGED <<sendVars, portTimeout, rdVars, kVars, smuVars, sweepVars>>
    /\ atStop' = IF stop_event[Program[ip].chan] THEN atStop
                 ELSE [atStop EXCEPT ![Program[ip].chan] =
                            Len(results[Program[ip].chan])]
    /\ UNCHANGED <<client, session>>

\* stop(): stop_event.set()
FdStop ==
    /\ Running
    /\ Program[ip].op = "stop"
    /\ stop_event' = [stop_event EXCEPT ![Program[ip].chan] = TRUE]
    /\ ip' = ip + 1
    /\ UNCHANGED <<fd, wpc, wi, results, sink, joined, samples>>
    /\ UNCHANGED <<sendVars, portTimeout, rdVars, kVars, smuVars, sweepVars>>
    /\ atStop' = IF stop_event[Program[ip].chan] THEN atStop
                 ELSE [atStop EXCEPT ![Program[ip].chan] =
                            Len(results[Program[ip].chan])]
    /\ UNCHANGED <<client, session>>

\* a join that returns while the thread may still be running
FdJoinNoWait ==
    /\ Running
    /\ Program[ip].op = "join"
    /\ joined' = joined \cup {Program[ip].chan}
    /\ ip' = ip + 1
    /\ UNCHANGED <<fd, wpc, wi, stop_event, results, sink, samples>>
    /\ UNCHANGED <<sendVars, portTimeout, rdVars, kVars, smuVars, sweepVars>>
    /\ UNCHANGED <<client, session, atStop>>

\* thrd.join(): returns once the thread has ended
FdJoin ==
    /\ Running
    /\ Program[ip].op = "join"
    /\ wpc[Program[ip].chan] \in {"finished", "crashed"}
    /\ joined' = joined \cup {Program[ip].chan}
    /\ ip' = ip + 1
    /\ UNCHANGED <<fd, wpc, wi, stop_event, results, sink, samples>>
    /\ UNCHANGED <<sendVars, portTimeout, rdVars, kVars, smuVars, sweepVars>>
    /\ UNCHANGED <<client, session, atStop>>

\* run: return 0
FdDone ==
    /\ fd = "run"
    /\ ip > Len(Program)
    /\ fd' = "done"
    /\ UNCHANGED <<ip, wpc, wi, stop_event, results, sink, joined, samples>>
    /\ UNCHANGED <<sendVars, portTimeout, rdVars, kVars, smuVars, sweepVars>>
    /\ UNCHANGED <<client, session, atStop>>

\* a loop head that never looks at the flag
WorkerCheckIgnoresStop(c) ==
    /\ wpc[c] = "check"
    /\ samples < Budget
    /\ wpc' = [wpc EXCEPT ![c] = "measure"]
    /\ UNCHANGED <<ip, fd, wi, stop_event, results, sink, joined, samples>>
    /\ UNCHANGED <<sendVars, portTimeout, rdVars, kVars, smuVars, sweepVars>>
    /\ UNCHANGED <<client, session, atStop>>

\* run_smu: while not stop_event.is_set()
WorkerCheck(c) ==
    /\ wpc[c] = "check"
    /\ stop_event[c] \/ samples < Budget
    /\ wpc' = [wpc EXCEPT ![c] = IF stop_event[c] THEN "finished"
                                 ELSE "measure"]
    /\ UNCHANGED <<ip, fd, wi, stop_event, results, sink, joined, samples>>
    /\ UNCHANGED <<sendVars, portTimeout, rdVars, kVars, smuVars, sweepVars>>
    /\ UNCHANGED <<client, session, atStop>>

\* a worker that never advances its counter
WorkerMeasureNoIncrement(c) ==
    /\ wpc[c] = "measure"
    /\ results' = [results EXCEPT ![c] = Append(@,
            RunSmuReading(wi[c],
                          Volts(Measure("smub")), Amps(Measure("smub")),
                          Volts(Measure("smua")), Amps(Measure("smua"))))]
    /\ smuCalls' = smuCalls + 4
    /\ samples' = samples + 1
    /\ wpc' = [wpc EXCEPT ![c] = "open"]
    /\ UNCHANGED <<smuLevel, smuOutput>>
    /\ UNCHANGED <<ip, fd, wi, stop_event, sink, joined>>
    /\ UNCHANGED <<sendVars, portTimeout, rdVars, kVars, sweepVars>>
    /\ UNCHANGED <<client, session, atStop>>

\* run_smu: the four measurements, the reading, _results.append, _i + 1
WorkerMeasure(c) ==
    /\ wpc[c] = "measure"
    /\ results' = [results EXCEPT ![c] = Append(@,
            RunSmuReading(wi[c],
                          Volts(Measure("smub")), Amps(Measure("smub")),
                          Volts(Measure("smua")), Amps(Measure("smua"))))]
    /\ wi' = [wi EXCEPT ![c] = @ + 1]
    /\ smuCalls' = smuCalls + 4
    /\ samples' = samples + 1
    /\ wpc' = [wpc EXCEPT ![c] = "open"]
    /\ UNCHANGED <<smuLevel, smuOutput>>
    /\ UNCHANGED <<ip, fd, stop_event, sink, joined>>
    /\ UNCHANGED <<sendVars, portTimeout, rdVars, kVars, sweepVars>>
    /\ UNCHANGED <<client, session, atStop>>

\* a failure that takes the result file with it
WorkerCrashLosesFile(c) ==
    /\ wpc[c] = "measure"
    /\ wpc' = [wpc EXCEPT ![c] = "crashed"]
    /\ sink' = [sink EXCEPT ![c] = [state |-> "absent", rows |-> <<>>]]
    /\ smuCalls' = smuCalls + 1
    /\ samples' = samples + 1
    /\ UNCHANGED <<smuLevel, smuOutput>>
    /\ UNCHANGED <<ip, fd, wi, stop_event, results, joined>>
    /\ UNCHANGED <<sendVars, portTimeout, rdVars, kVars, sweepVars>>
    /\ UNCHANGED <<client, session, atStop>>

\* run_smu: an instrument call raises; the thread ends with the exception
WorkerCrash(c) ==
    /\ wpc[c] = "measure"
    /\ wpc' = [wpc EXCEPT ![c] = "crashed"]
    /\ smuCalls' = smuCalls + 1
    /\ samples' = samples + 1
    /\ UNCHANGED <<smuLevel, smuOutput>>
    /\ UNCHANGED <<ip, fd, wi, stop_event, results, sink, joined>>
    /\ UNCHANGED <<sendVars, portTimeout, rdVars, kVars, sweepVars>>
    /\ UNCHANGED <<client, session, atStop>>

\* write_results: filepath.open("w") truncates the file
WorkerOpen(c) ==
    /\ wpc[c] = "open"
    /\ sink' = [sink EXCEPT ![c] = [state |-> "open", rows |-> <<>>]]
    /\ wpc' = [wpc EXCEPT ![c] = "write"]
    /\ UNCHANGED <<ip, fd, wi, stop_event, results, joined, samples>>
    /\ UNCHANGED <<sendVars, portTimeout, rdVars, kVars, smuVars, sweepVars>>
    /\ UNCHANGED <<client, session, atStop>>

\* a write that appends the last reading only to the truncated file
WorkerWriteLastOnly(c) ==
    /\ wpc[c] = "write"
    /\ sink' = [sink EXCEPT ![c] =
                    [state |-> "closed",
                     rows |-> <<results[c][Len(results[c])]>>]]
    /\ wpc' = [wpc EXCEPT ![c] = "check"]
    /\ UNCHANGED <<ip, fd, wi, stop_event, results, joined, samples>>
    /\ UNCHANGED <<sendVars, portTimeout, rdVars, kVars, smuVars, sweepVars>>
    /\ UNCHANGED <<client, session, atStop>>

\* write_results: the header, the rows, and the file is closed
WorkerWrite(c) ==
    /\ wpc[c] = "write"
    /\ sink' = [sink EXCEPT ![c] = [state |-> "closed", rows |-> results[c]]]
    /\ wpc' = [wpc EXCEPT ![c] = "check"]
    /\ UNCHANGED <<ip, fd, wi, stop_event, results, joined, samples>>
    /\ UNCHANGED <<sendVars, portTimeout, rdVars, kVars, smuVars, sweepVars>>
    /\ UNCHANGED <<client, session, atStop>>

Worker ==
    \E c \in Sessions :
        \/ WorkerCheck(c)
        \/ WorkerMeasure(c)
        \/ WorkerCrash(c)
        \/ WorkerOpen(c)
        \/ WorkerWrite(c)

(***************************************************************************)
(* Specifications.                                                         *)
(***************************************************************************)
SendIdle ==
    /\ impl = "microfluidics"
    /\ call = NoCall
    /\ frame = NoFrame
    /\ pc = "idle"
    /\ cmd = <<>>
    /\ line_num = -1
    /\ response = <<>>
    /\ exc = NoExc
    /\ tx = <<>>
    /\ rx = <<>>
    /\ script = <<>>
    /\ ctrl = "idle"
    /\ blanks = 0
    /\ writes = 0
    /\ reads = 0
    /\ waits = 0

(***************************************************************************)
(* read_smu_continuously.py: read_values and the SIGTERM handler.  The     *)
(* handler runs in the thread of read_values, between two of its steps.    *)
(***************************************************************************)
\* the iterations of the while loop that are followed
MaxReadings == 3

NoHeld ==
    [gate_voltage |-> 0, drain_voltage |-> 0, drain_v |-> Volts(0),
     drain_c |-> Amps(0), reading |-> <<>>]

\* the bias read_values is called with: millivolts, gate and drain
ReadValuesArgs == {<<1000, 50>>, <<1000, -50>>, <<0, 50>>}

NoSignal == [iters |-> -1, printed |-> -1]

\* sigterm_handler that assigns a local name: the global is left alone
sigterm_handlerLocal ==
    /\ rpc \in {"bias", "keys", "while", "drain", "reading", "print"}
    /\ atSignal' = IF atSignal = NoSignal
                   THEN [iters |-> iters, printed |-> Len(printed)]
                   ELSE atSignal
    /\ UNCHANGED <<stop_running, rpc, iters, held, printed, rv>>
    /\ UNCHANGED <<probe, row>>
    /\ UNCHANGED <<sendVars, portTimeout, kVars, smuVars, sweepVars, fdVars>>

\* sigterm_handler: __stop_running__ = True
sigterm_handler ==
    /\ rpc \in {"bias", "keys", "while", "drain", "reading", "print"}
    /\ stop_running' = TRUE
    /\ atSignal' = IF atSignal = NoSignal
                   THEN [iters |-> iters, printed |-> Len(printed)]
                   ELSE atSignal
    /\ UNCHANGED <<rpc, iters, held, printed, rv>>
    /\ UNCHANGED <<probe, row>>
    /\ UNCHANGED <<sendVars, portTimeout, kVars, smuVars, sweepVars, fdVars>>

\* read_values: the two apply_voltage calls after initialise_smu
ReadValuesBias ==
    /\ rpc = "bias"
    /\ smuLevel' = [smuLevel EXCEPT !["smua"] = held.gate_voltage,
                                    !["smub"] = held.drain_voltage]
    /\ smuOutput' = [smuOutput EXCEPT !["smua"] = "on", !["smub"] = "on"]
    /\ smuCalls' = smuCalls + 2
    /\ rpc' = "keys"
    /\ UNCHANGED <<stop_running, iters, held, printed, rv, atSignal>>
    /\ UNCHANGED <<probe, row>>
    /\ UNCHANGED <<sendVars, portTimeout, kVars, sweepVars, fdVars>>

\* read_values: print_line(_keys)
ReadValuesKeys ==
    /\ rpc = "keys"
    /\ rpc' = "while"
    /\ UNCHANGED <<stop_running, iters, held, printed, rv, atSignal>>
    /\ UNCHANGED <<probe, row>>
    /\ UNCHANGED <<sendVars, portTimeout, kVars, smuVars, sweepVars, fdVars>>

\* read_values: while not __stop_running__, and return 0 after the loop
ReadValuesWhile ==
    /\ rpc = "while"
    /\ stop_running \/ iters < MaxReadings
    /\ IF stop_running
       THEN /\ rpc' = "returned"
            /\ rv' = <<0>>
            /\ UNCHANGED iters
       ELSE /\ rpc' = "drain"
            /\ iters' = iters + 1
            /\ UNCHANGED rv
    /\ UNCHANGED <<stop_running, held, printed, atSignal>>
    /\ UNCHANGED <<probe, row>>
    /\ UNCHANGED <<sendVars, portTimeout, kVars, smuVars, sweepVars, fdVars>>

\* read_values: drain_v, drain_c = measure_voltage(smub), measure_current(smub)
ReadValuesDrain ==
    /\ rpc = "drain"
    /\ held' = [held EXCEPT !.drain_v = Volts(Measure("smub")),
                            !.drain_c = Amps(Measure("smub"))]
    /\ smuCalls' = smuCalls + 2
    /\ rpc' = "reading"
    /\ UNCHANGED <<smuLevel, smuOutput>>
    /\ UNCHANGED <<stop_running, iters, printed, rv, atSignal>>
    /\ UNCHANGED <<probe, row>>
    /\ UNCHANGED <<sendVars, portTimeout, kVars, sweepVars, fdVars>>

\* read_values: _reading, with the time and the two measurements of smua
ReadValuesTuple ==
    /\ rpc = "reading"
    /\ held' = [held EXCEPT !.reading =
                    ReadValuesReading(smuCalls, held.drain_v, held.drain_c,
                                      Volts(Measure("smua")),
                                      Amps(Measure("smua")))]
    /\ smuCalls' = smuCalls + 2
    /\ rpc' = "print"
    /\ UNCHANGED <<smuLevel, smuOutput>>
    /\ UNCHANGED <<stop_running, iters, printed, rv, atSignal>>
    /\ UNCHANGED <<probe, row>>
    /\ UNCHANGED <<sendVars, portTimeout, kVars, sweepVars, fdVars>>

\* read_values: print_line(_reading)
ReadValuesPrint ==
    /\ rpc = "print"
    /\ printed' = Append(printed, held.reading)
    /\ rpc' = "while"
    /\ UNCHANGED <<stop_running, iters, held, rv, atSignal>>
    /\ UNCHANGED <<probe, row>>
    /\ UNCHANGED <<sendVars, portTimeout, kVars, smuVars, sweepVars, fdVars>>

\* read_values: a measurement raises; the exception leaves the function
ReadValuesRaise ==
    /\ rpc \in {"drain", "reading"}
    /\ rpc' = "raised"
    /\ smuCalls' = smuCalls + 1
    /\ UNCHANGED <<smuLevel, smuOutput>>
    /\ UNCHANGED <<stop_running, iters, held, printed, rv, atSignal>>
    /\ UNCHANGED <<probe, row>>
    /\ UNCHANGED <<sendVars, portTimeout, kVars, sweepVars, fdVars>>

\* the steps of read_values
ReadValues ==
    \/ ReadValuesBias
    \/ ReadValuesKeys
    \/ ReadValuesWhile
    \/ ReadValuesDrain
    \/ ReadValuesTuple
    \/ ReadValuesPrint
    \/ ReadValuesRaise

SigIdle ==
    /\ stop_running = FALSE
    /\ rpc = "none"
    /\ iters = 0
    /\ held = NoHeld
    /\ printed = <<>>
    /\ rv = <<>>
    /\ atSignal = NoSignal

ReadIdle ==
    /\ probe = NoProbe
    /\ row = NoRow
    /\ SigIdle

KIdle ==
    /\ kfn = "none"
    /\ kargs = NoArgs
    /\ kpc = "none"
    /\ link = NoLink
    /\ retry = 0
    /\ slept = <<>>
    /\ kexc = "none"
    /\ int_time = NoTime
    /\ stab = 0

SmuIdle ==
    /\ smuLevel = [t \in Terminals |-> 0]
    /\ smuOutput = [t \in Terminals |-> "off"]
    /\ smuCalls = 0

SweepIdle ==
    /\ pattern = <<>>
    /\ gate_voltages = <<>>
    /\ channel_voltages = <<>>
    /\ seq = "none"
    /\ item = 1
    /\ counter = 0
    /\ gi = 1
    /\ ci = 1
    /\ reading = NoReading
    /\ readings = <<>>
    /\ mark = 0
    /\ acked = 0

FdIdle ==
    /\ ip = 1
    /\ fd = "none"
    /\ wpc = [c \in Sessions |-> "unstarted"]
    /\ wi = [c \in Sessions |-> 0]
    /\ stop_event = [c \in Sessions |-> FALSE]
    /\ results = [c \in Sessions |-> <<>>]
    /\ sink = [c \in Sessions |-> [state |-> "absent", rows |-> <<>>]]
    /\ joined = {}
    /\ samples = 0
    /\ client = "none"
    /\ session = "none"
    /\ atStop = [c \in Sessions |-> 0]

\* a call send_and_wait_for_response(port, cmd, line_num) of either module,
\* about to run, the mock port holding the stream `script`
InitSend ==
    /\ impl \in {"microfluidics", "fluid_detection"}
    /\ cmd \in SampleCommands
    /\ line_num \in {-1, 7}
    /\ script \in Streams
    /\ rx = script
    /\ portTimeout = TRUE
    /\ pc = "write"
    /\ call = NoCall
    /\ frame = NoFrame
    /\ response = <<>>
    /\ exc = NoExc
    /\ tx = <<>>
    /\ ctrl = "idle"
    /\ blanks = 0
    /\ writes = 0
    /\ reads = 0
    /\ waits = 0
    /\ SmuIdle
    /\ ReadIdle
    /\ KIdle
    /\ SweepIdle
    /\ FdIdle

NextSend == SendWrite \/ SendRead \/ SendSleep

\* send_and_wait_for_response against a preloaded mock port
SpecSend == InitSend /\ [][NextSend]_vars

\* the calling thread keeps running
LiveSpecSend == SpecSend /\ WF_vars(SendStep)

\* a client about to call the command helpers on a port with or without a
\* read timeout
InitCmd ==
    /\ SendIdle
    /\ portTimeout \in BOOLEAN
    /\ SmuIdle
    /\ ReadIdle
    /\ KIdle
    /\ SweepIdle
    /\ FdIdle

NextCmd ==
    \/ Call
    \/ HelperStep
    \/ SendWrite
    \/ SendRead
    \/ SendSleep
    \/ CtrlReply
    \/ CtrlBlank

\* the command helpers against the controller
SpecCmd == InitCmd /\ [][NextCmd]_vars

\* run_experiment after initialise_smu: the port is opened without a
\* timeout, the outputs are off, the generator has not been advanced
InitSweep ==
    /\ SendIdle
    /\ portTimeout = FALSE
    /\ SmuIdle
    /\ ReadIdle
    /\ KIdle
    /\ FdIdle
    /\ pattern \in Patterns
    /\ gate_voltages \in GateLists
    /\ \E v \in ChannelVoltages : channel_voltages = <<v, 0 - v>>
    /\ seq = "for_item"
    /\ item = 1
    /\ counter = 0
    /\ gi = 1
    /\ ci = 1
    /\ reading = NoReading
    /\ readings = <<>>
    /\ mark = 0
    /\ acked = 0

NextSweep ==
    \/ ForItem
    \/ WhileTest
    \/ IssueCommand
    \/ CommandReturned
    \/ CommandRaised
    \/ ForPair
    \/ ApplyGate
    \/ ApplyChannel
    \/ MeasureStep
    \/ Yield
    \/ SwitchOff
    \/ Increment
    \/ HelperStep
    \/ SendWrite
    \/ SendRead
    \/ SendSleep
    \/ CtrlReply
    \/ CtrlBlank

\* the sweeping sequencer against the controller and the instrument
SpecSweep == InitSweep /\ [][NextSweep]_vars

\* run(mfd_port, smu, outdir) about to start: the port is opened without a
\* timeout
InitFd ==
    /\ SendIdle
    /\ portTimeout = FALSE
    /\ SmuIdle
    /\ ReadIdle
    /\ KIdle
    /\ SweepIdle
    /\ ip = 1
    /\ fd = "run"
    /\ wpc = [c \in Sessions |-> "unstarted"]
    /\ wi = [c \in Sessions |-> 0]
    /\ stop_event = [c \in Sessions |-> FALSE]
    /\ results = [c \in Sessions |-> <<>>]
    /\ sink = [c \in Sessions |-> [state |-> "absent", rows |-> <<>>]]
    /\ joined = {}
    /\ samples = 0
    /\ client = "run"
    /\ session = "none"
    /\ atStop = [c \in Sessions |-> 0]

NextFd ==
    \/ FdEvent
    \/ FdApply
    \/ FdThreadStart
    \/ FdCall
    \/ FdReturned
    \/ FdRaised
    \/ FdStop
    \/ FdJoin
    \/ FdDone
    \/ Worker
    \/ HelperStep
    \/ SendWrite
    \/ SendRead
    \/ SendSleep
    \/ CtrlReply
    \/ CtrlBlank

\* the fluid-detection sequencer, its workers, the controller and the
\* instrument
SpecFd == InitFd /\ [][NextFd]_vars

\* one loop iteration of run_smu or read_values whose measurements have
\* returned the values of probe
InitReading ==
    /\ SendIdle
    /\ portTimeout = FALSE
    /\ SmuIdle
    /\ SweepIdle
    /\ FdIdle
    /\ KIdle
    /\ probe \in Probes
    /\ row = NoRow
    /\ SigIdle

NextReading == BuildReading

\* the reading of one iteration, for every measured value
SpecReading == InitReading /\ [][NextReading]_vars

\* read_values after initialise_smu returned; the handler, installed when
\* the module was loaded, may have run already
InitReadValues ==
    /\ SendIdle
    /\ portTimeout = FALSE
    /\ SmuIdle
    /\ SweepIdle
    /\ FdIdle
    /\ KIdle
    /\ probe = NoProbe
    /\ row = NoRow
    /\ stop_running \in BOOLEAN
    /\ rpc = "bias"
    /\ iters = 0
    /\ \E a \in ReadValuesArgs :
            held = [NoHeld EXCEPT !.gate_voltage = a[1],
                                  !.drain_voltage = a[2]]
    /\ printed = <<>>
    /\ rv = <<>>
    /\ atSignal = IF stop_running THEN [iters |-> 0, printed |-> 0]
                  ELSE NoSignal

NextReadValues == sigterm_handler \/ ReadValues

\* the continuous reader and its termination signal
SpecReadValues == InitReadValues /\ [][NextReadValues]_vars

\* read_values keeps running
LiveSpecReadValues == SpecReadValues /\ WF_vars(ReadValues)

\* run_fluid_pattern about to run on a reagent channel; the port is
\* opened without a timeout
InitFluidPattern ==
    /\ SendIdle
    /\ portTimeout = FALSE
    /\ SmuIdle
    /\ ReadIdle
    /\ KIdle
    /\ SweepIdle
    /\ client = "run_fluid_pattern"
    /\ session \in Sessions
    /\ ip = 1
    /\ fd = "run"
    /\ wpc = [c \in Sessions |-> "unstarted"]
    /\ wi = [c \in Sessions |-> 0]
    /\ stop_event = [c \in Sessions |-> FALSE]
    /\ results = [c \in Sessions |-> <<>>]
    /\ sink = [c \in Sessions |-> [state |-> "absent", rows |-> <<>>]]
    /\ joined = {}
    /\ samples = 0
    /\ atStop = [c \in Sessions |-> 0]

\* a pattern about to run: run_pattern of isswisafre, or run_fluid_pattern
InitPatterns == InitSweep \/ InitFluidPattern

NextPatterns ==
    \/ NextSweep
    \/ FdCall
    \/ FdReturned
    \/ FdRaised
    \/ FdDone

\* the two pattern sequencers against the controller
SpecPatterns == InitPatterns /\ [][NextPatterns]_vars

\* a sequencer about to run its phases: run_pattern of isswisafre, or run()
\* of fluid_detection
InitPhases == InitSweep \/ InitFd

NextPhases ==
    \/ NextSweep
    \/ FdEvent
    \/ FdApply
    \/ FdThreadStart
    \/ FdCall
    \/ FdReturned
    \/ FdRaised
    \/ FdStop
    \/ FdJoin
    \/ FdDone
    \/ Worker

\* the two sequencers, each against the controller and the instrument
SpecPhases == InitPhases /\ [][NextPhases]_vars

\* run_pattern about to run a wash of 5 seconds followed by a collect of 2
\* seconds over one gate voltage
InitEndToEnd ==
    /\ SendIdle
    /\ portTimeout = FALSE
    /\ SmuIdle
    /\ ReadIdle
    /\ KIdle
    /\ FdIdle
    /\ pattern = <<[command |-> "wash_chip", seconds |-> 5],
                   [command |-> "collect_ch01", seconds |-> 2]>>
    /\ gate_voltages \in {<<0>>, <<1>>}
    /\ \E v \in ChannelVoltages : channel_voltages = <<v, 0 - v>>
    /\ seq = "for_item"
    /\ item = 1
    /\ counter = 0
    /\ gi = 1
    /\ ci = 1
    /\ reading = NoReading
    /\ readings = <<>>
    /\ mark = 0
    /\ acked = 0

\* that run, against the controller and the instrument
SpecEndToEnd == InitEndToEnd /\ [][NextSweep]_vars

\* the arguments run_experiment hands to initialise_smu
ExperimentArgs ==
    {[NoArgs EXCEPT !.line_frequency = f, !.nplc = n] :
        f \in {50, 60}, n \in {Rat(1, 1), Rat(30, 1)}}

\* run_experiment about to call initialise_smu; the port will be opened
\* without a timeout
InitExperiment ==
    /\ SendIdle
    /\ portTimeout = FALSE
    /\ SmuIdle
    /\ ReadIdle
    /\ FdIdle
    /\ kfn = "initialise_smu"
    /\ kargs \in ExperimentArgs
    /\ kpc = "construct"
    /\ link = NoLink
    /\ retry = 0
    /\ slept = <<>>
    /\ kexc = "none"
    /\ int_time = NoTime
    /\ stab = 0
    /\ pattern \in Patterns
    /\ gate_voltages \in GateLists
    /\ \E v \in ChannelVoltages : channel_voltages = <<v, 0 - v>>
    /\ seq = "none"
    /\ item = 1
    /\ counter = 0
    /\ gi = 1
    /\ ci = 1
    /\ reading = NoReading
    /\ readings = <<>>
    /\ mark = 0
    /\ acked = 0

NextExperiment ==
    \/ Initialise
    \/ RunPattern
    \/ NextSweep

\* run_experiment: initialise_smu, then the pattern against the controller
\* and the instrument
SpecExperiment == InitExperiment /\ [][NextExperiment]_vars

\* the arguments a caller may hand to initialise_smu, in and out of range
Configurations ==
    {[NoArgs EXCEPT !.line_frequency = f, !.nplc = n] :
        f \in {0, 49, 50, 55, 60, 61},
        n \in {Rat(-1, 1), Rat(0, 1), Rat(999, 1000000), Rat(1, 1000),
               Rat(1, 1), Rat(25, 1), Rat(25001, 1000), Rat(26, 1)}}

\* initialise_smu(visa_address, line_frequency, nplc) about to run
InitInitialise ==
    /\ SendIdle
    /\ portTimeout = FALSE
    /\ SmuIdle
    /\ ReadIdle
    /\ SweepIdle
    /\ FdIdle
    /\ kfn = "initialise_smu"
    /\ kargs \in Configurations
    /\ kpc = "construct"
    /\ link = NoLink
    /\ retry = 0
    /\ slept = <<>>
    /\ kexc = "none"
    /\ int_time = NoTime
    /\ stab = 0

\* initialise_smu against the instrument
SpecInitialise == InitInitialise /\ [][Initialise]_vars

\* connect(visa_address, retries, seconds_between_retries) about to run
InitConnect ==
    /\ SendIdle
    /\ portTimeout = FALSE
    /\ SmuIdle
    /\ ReadIdle
    /\ SweepIdle
    /\ FdIdle
    /\ kfn = "connect"
    /\ \E n \in 0..MaxRetries : \E d \in {DefaultDelay, 2 * DefaultDelay} :
            kargs = [NoArgs EXCEPT !.retries = n,
                                   !.seconds_between_retries = d]
    /\ kpc = "construct"
    /\ link = NoLink
    /\ retry = 0
    /\ slept = <<>>
    /\ kexc = "none"
    /\ int_time = NoTime
    /\ stab = 0

\* connect against an instrument whose connection attempts succeed or fail
SpecConnect == InitConnect /\ [][Connect]_vars

\* the calling thread keeps running: every attempt and every sleep returns
LiveSpecConnect == SpecConnect /\ WF_vars(Connect)

\* a client about to call start_smu for one channel; it will call the
\* returned stop function twice, join the thread and call stop once more
InitStop ==
    /\ SendIdle
    /\ portTimeout = FALSE
    /\ SmuIdle
    /\ ReadIdle
    /\ KIdle
    /\ SweepIdle
    /\ client = "stop_smu"
    /\ session \in Sessions
    /\ ip = 1
    /\ fd = "run"
    /\ wpc = [c \in Sessions |-> "unstarted"]
    /\ wi = [c \in Sessions |-> 0]
    /\ stop_event = [c \in Sessions |-> FALSE]
    /\ results = [c \in Sessions |-> <<>>]
    /\ sink = [c \in Sessions |-> [state |-> "absent", rows |-> <<>>]]
    /\ joined = {}
    /\ samples = 0
    /\ atStop = [c \in Sessions |-> 0]

\* a client about to call start_smu for one channel; it will call the
\* returned stop function and join the returned thread
InitSession ==
    /\ SendIdle
    /\ portTimeout = FALSE
    /\ SmuIdle
    /\ ReadIdle
    /\ KIdle
    /\ SweepIdle
    /\ client = "start_smu"
    /\ session \in Sessions
    /\ ip = 1
    /\ fd = "run"
    /\ wpc = [c \in Sessions |-> "unstarted"]
    /\ wi = [c \in Sessions |-> 0]
    /\ stop_event = [c \in Sessions |-> FALSE]
    /\ results = [c \in Sessions |-> <<>>]
    /\ sink = [c \in Sessions |-> [state |-> "absent", rows |-> <<>>]]
    /\ joined = {}
    /\ samples = 0
    /\ atStop = [c \in Sessions |-> 0]

\* the steps of the thread that calls start_smu, stop and join
SessionClient ==
    \/ FdEvent
    \/ FdApply
    \/ FdThreadStart
    \/ FdStop
    \/ FdJoin
    \/ FdDone

NextSession == SessionClient \/ Worker

\* one acquisition session: start_smu, its worker, stop and join
SpecSession == InitSession /\ [][NextSession]_vars

\* both threads keep running
LiveSpecSession ==
    SpecSession /\ WF_vars(SessionClient) /\ WF_vars(Worker)

\* one acquisition session whose stop function is called again and again
SpecStop == InitStop /\ [][NextSession]_vars

\* a client about to run two sessions on one channel
InitRestart ==
    /\ SendIdle
    /\ portTimeout = FALSE
    /\ SmuIdle
    /\ ReadIdle
    /\ KIdle
    /\ SweepIdle
    /\ client = "restart_smu"
    /\ session \in Sessions
    /\ ip = 1
    /\ fd = "run"
    /\ wpc = [c \in Sessions |-> "unstarted"]
    /\ wi = [c \in Sessions |-> 0]
    /\ stop_event = [c \in Sessions |-> FALSE]
    /\ results = [c \in Sessions |-> <<>>]
    /\ sink = [c \in Sessions |-> [state |-> "absent", rows |-> <<>>]]
    /\ joined = {}
    /\ samples = 0
    /\ atStop = [c \in Sessions |-> 0]

\* two acquisition sessions in a row: each runs its own run_smu
SpecRestart == InitRestart /\ [][NextSession]_vars

(***************************************************************************)
(* Reading a wire line back, for the properties.                           *)
(***************************************************************************)
RECURSIVE Split(_, _)
Split(s, sep) ==
    IF sep \notin Range(s) THEN <<s>>
    ELSE LET i == CHOOSE k \in 1..Len(s) :
                    s[k] = sep /\ \A j \in 1..(k - 1) : s[j] # sep
         IN <<SubSeq(s, 1, i - 1)>> \o Split(SubSeq(s, i + 1, Len(s)), sep)

RECURSIVE ParseNat(_)
ParseNat(t) ==
    IF Len(t) = 1 THEN IndexOf(t[1], DigitChars) - 1
    ELSE 10 * ParseNat(SubSeq(t, 1, Len(t) - 1))
            + (IndexOf(t[Len(t)], DigitChars) - 1)

IsNumeral(t) ==
    /\ t # <<>>
    /\ Range(t) \subseteq Range(DigitChars)
    /\ (Len(t) > 1 => t[1] # "0")

IsInfix(a, b) ==
    \E i \in 0..(Len(b) - Len(a)) : SubSeq(b, i + 1, i + Len(a)) = a

\* the raw lines of the mock port, byte by byte
BlankLines == {<<>>, <<10>>}

FinLines == {<<70, 73, 78, 10>>, <<32, 70, 73, 78, 13, 10>>}

ErrLines == {<<69, 82, 82, 10>>}

RECURSIVE BlankPrefix(_)
BlankPrefix(s) ==
    IF s # <<>> /\ Head(s) \in BlankLines THEN 1 + BlankPrefix(Tail(s)) ELSE 0

HasTerminal(s) == \E i \in 1..Len(s) : s[i] \in FinLines \cup ErrLines

(***************************************************************************)
(* Properties of send_and_wait_for_response (SpecSend, LiveSpecSend).      *)
(***************************************************************************)
\* C4: on a stream of n blank lines followed by a FIN or ERR line the
\* exchange of microfluidics.py writes the command once and never again,
\* ends after exactly n+1 reads and n waits, and returns exactly when the
\* line is FIN and raises exactly when it is ERR.
C4_ExchangeCounts ==
    LET n == BlankPrefix(script)
    IN (/\ impl = "microfluidics"
        /\ pc # "write"
        /\ n < Len(script)
        /\ script[n + 1] \in FinLines \cup ErrLines)
       => /\ writes = 1
          /\ tx = Encode(cmd)
          /\ reads <= n + 1
          /\ waits <= n
          /\ Finished =>
                /\ reads = n + 1
                /\ waits = n
                /\ (pc = "returned") = (script[n + 1] \in FinLines)
                /\ (pc = "raised") = (script[n + 1] \in ErrLines)

\* two blank lines then ERR: two waits, then the failure
C4_Witness ==
    /\ impl = "microfluidics"
    /\ script = <<<<10>>, <<>>, <<69, 82, 82, 10>>>>
    /\ pc = "raised"
    /\ waits = 2
    /\ reads = 3

\* C5: when the controller answers ERR the exchange fails with an error
\* that carries the text of the command, and touches the port no more:
\* the lines after the ERR line are still unread and nothing else was
\* written.
C5_ErrCarriesCommand ==
    (pc = "raised" /\ response = ERR)
    => /\ exc.type = "Exception"
       /\ \E i \in 1..Len(exc.parts) : IsInfix(Strip(cmd), exc.parts[i])
       /\ writes = 1
       /\ rx = SubSeq(script, reads + 1, Len(script))

\* C6: the only response the exchange of microfluidics.py passes over (by
\* sleeping and reading again) is the blank one.
C6_OnlyBlankIgnored ==
    (impl = "microfluidics" /\ pc = "sleep" /\ reads \in 1..Len(script))
    => script[reads] \in BlankLines

\* C7: the exchange ends only on a FIN or ERR line; it ends whenever the
\* stream holds one; and on a stream that holds none it polls for ever,
\* neither returning nor raising.
C7_TerminatesIffReply ==
    /\ [](Finished => (/\ reads \in 1..Len(script)
                       /\ script[reads] \in FinLines \cup ErrLines))
    /\ (HasTerminal(script) ~> Finished)
    /\ [](~HasTerminal(script) => (pc \in {"write", "read", "sleep"}
                                    /\ exc = NoExc))

\* a port that never answers is still being polled after more reads than
\* the stream has lines
C7_Witness ==
    /\ ~HasTerminal(script)
    /\ Len(script) = MaxStream
    /\ pc = "sleep"
    /\ reads = MaxCount
    /\ waits = MaxCount

(***************************************************************************)
(* Properties of the command helpers (SpecCmd).                            *)
(***************************************************************************)
\* the combinations each helper refuses, by channel number and word
InvalidFor(c) ==
    CASE c.fn = "prime" -> c.command \notin {CHEM_WASH, DASH_C}
      [] c.fn = "prime_wash_to_channel" -> Value(c.channel) = 9
      [] c.fn = "prime_reagent_to_channel" -> Value(c.channel) \notin 1..8
      [] c.fn = "wash" -> c.command \notin {DASH_C, COLLECTION, COMMON}
      [] c.fn = "vent" -> c.command \notin {ALL, COMMON}
      [] c.fn = "collect" -> Value(c.channel) = 0
      [] OTHER -> FALSE

WireTokens == Split(Decode(tx), SP)

\* C9: no PURGE line is written for a reagent channel (ids 1..8).
C9_PurgeNeverReagent ==
    (tx # <<>> /\ WireTokens[1] = PURGE)
    => /\ Len(WireTokens) >= 3
       /\ WireTokens[3] \notin {<<DigitChars[i + 1]>> : i \in 1..8}

C9_Witness ==
    /\ call.fn = "vent_chip2waste"
    /\ tx # <<>>
    /\ WireTokens[1] = PURGE
    /\ WireTokens[3] = <<"0">>
    /\ pc = "returned"

\* what each helper is to send
ExpectedVerb(c) ==
    CASE c.fn \in {"prime", "prime_wash_to_channel",
                   "prime_reagent_to_channel"} -> PRIME
      [] c.fn \in {"wash", "wash_common", "wash_chip"} -> WASH
      [] c.fn \in {"vent", "vent_common", "vent_chip2waste"} -> PURGE
      [] c.fn \in {"collect", "vent_chip2collection"} -> COLLECT

ExpectedQualifier(c) ==
    CASE c.fn \in {"prime", "wash", "vent"} -> c.command
      [] c.fn \in {"prime_wash_to_channel", "prime_reagent_to_channel"} ->
            CHEM_WASH
      [] c.fn \in {"wash_common", "vent_common"} -> COMMON
      [] c.fn = "wash_chip" -> COLLECTION
      [] c.fn = "vent_chip2waste" -> ALL
      [] c.fn \in {"collect", "vent_chip2collection"} -> DASH_C

ExpectedChannelId(c) ==
    CASE c.fn \in {"prime", "wash", "collect", "prime_wash_to_channel",
                   "prime_reagent_to_channel"} -> Value(c.channel)
      [] c.fn = "vent_chip2collection" -> 9
      [] OTHER -> 0

\* C10: the line written for a valid call is
\* "<VERB> <QUALIFIER> <channel-id> -T <T> -R <R>" and one newline, with
\* the channel's number and the T and R the caller passed (25 and 36 when
\* it passed none).
C10_WireFormat ==
    (call.fn # "none" /\ writes = 1)
    => LET text == Decode(tx)
           body == SubSeq(text, 1, Len(text) - 1)
           toks == Split(body, SP)
       IN /\ text[Len(text)] = NL
          /\ NL \notin Range(body)
          /\ Len(toks) = 7
          /\ toks[1] = ExpectedVerb(call)
          /\ toks[2] = ExpectedQualifier(call)
          /\ IsNumeral(toks[3])
          /\ ParseNat(toks[3]) = ExpectedChannelId(call)
          /\ toks[4] = <<"-", "T">>
          /\ IsNumeral(toks[5])
          /\ ParseNat(toks[5]) =
                (IF "seconds" \in call.kw THEN call.seconds ELSE 25)
          /\ toks[6] = <<"-", "R">>
          /\ IsNumeral(toks[7])
          /\ ParseNat(toks[7]) = (IF "rpm" \in call.kw THEN call.rpm ELSE 36)
          /\ (call.fn = "prime_wash_to_channel" /\ call.channel = "CH01"
                /\ call.kw = {})
             => tx = <<80, 82, 73, 77, 69, 32, 67, 72, 69, 77, 95, 87, 65,
                       83, 72, 32, 49, 32, 45, 84, 32, 50, 53, 32, 45, 82,
                       32, 51, 54, 10>>

C10_Witness ==
    /\ call.fn = "collect"
    /\ call.channel = "CH08"
    /\ call.kw = {"seconds", "rpm"}
    /\ call.seconds = 120
    /\ writes = 1
    /\ pc = "returned"

(***************************************************************************)
(* Properties of the fluid-detection sequencer (SpecFd).                   *)
(***************************************************************************)
LoopLen == Len(Loop(REAGENT_CHANNELS))

InFlight == ctrl = "busy" \/ pc \in {"write", "read", "sleep"}

Sampling(c) == wpc[c] \in {"measure", "open", "write"}

Alive(c) == wpc[c] \in {"check", "measure", "open", "write"}

C3_OneWorkerAlive ==
    /\ Cardinality({c \in Sessions : Alive(c)}) <= 1
    /\ \A i \in 1..Len(REAGENT_CHANNELS) :
          wpc[REAGENT_CHANNELS[i]] # "unstarted" =>
              \A j \in 1..(i - 1) :
                  /\ stop_event[REAGENT_CHANNELS[j]]
                  /\ REAGENT_CHANNELS[j] \in joined
                  /\ ~Alive(REAGENT_CHANNELS[j])

\* the worker of CH02 is sampling after the worker of CH01 was joined
C3_Witness ==
    /\ wpc["CH02"] = "measure"
    /\ "CH01" \in joined
    /\ wpc["CH01"] = "finished"

(***************************************************************************)
(* Properties of the sweeping sequencer (SpecSweep).                       *)
(***************************************************************************)
InstrumentSteps ==
    {"apply_gate", "apply_channel", "drain_voltage", "drain_current",
     "measured_gate_voltage", "measured_gate_current", "off_a", "off_b"}

SweepSteps == InstrumentSteps \cup {"for_pair", "yield"}

\* the readings one outer iteration of pump_and_read yields
ReadingsPerIteration == Len(gate_voltages) * Len(channel_voltages)

\* a command has been issued before the sequencer's present position
CommandIssued ==
    \/ counter > 0
    \/ \E j \in 1..(item - 1) : j <= Len(pattern) /\ pattern[j].seconds > 0

\* C2: in run_pattern / pump_and_read no instrument call is made while a
\* fluidic command is in flight: the instrument is called only after the
\* command of the iteration returned on FIN with the controller idle, every
\* call on the instrument is taken in such a state, and the next command is
\* issued only after all readings of the iteration were taken.
C2_NoInstrumentCallInFlight ==
    /\ [](InFlight => seq = "await")
    /\ [](seq \in SweepSteps =>
            /\ pc = "returned"
            /\ response = FIN
            /\ ctrl = "idle"
            /\ writes = 1)
    /\ [][smuCalls' # smuCalls => (ctrl = "idle" /\ pc = "returned")]_vars
    /\ []((seq = "command" /\ CommandIssued) =>
            Len(readings) - mark = ReadingsPerIteration)

\* the second command of an item is about to be issued after a full sweep
\* of two gate voltages and two channel voltages
C2_Witness ==
    /\ seq = "command"
    /\ counter = 1
    /\ Len(gate_voltages) = 2
    /\ Len(readings) - mark = 4
    /\ readings[Len(readings)].provided_channel_voltage = -50
    /\ readings[Len(readings)].drain_voltage = -50

(***************************************************************************)
(* Properties of the channel set (SpecCmd).                                *)
(***************************************************************************)
\* C11: the channels are one wash channel with id 0, one vent channel with
\* id 9 and reagent channels with ids exactly 1..8; REAGENT_CHANNELS lists
\* the reagent channels by ascending id and holds neither wash nor vent;
\* prime_wash_to_channel accepts exactly the reagent channels and the wash
\* channel.
C11_ChannelSets ==
    /\ Cardinality(Channel) = Len(ChannelSeq)
    /\ {c \in Channel : Value(c) = 0} = {"WSHL"}
    /\ {c \in Channel : Value(c) = 9} = {"VENT"}
    /\ {Value(c) : c \in Channel \ {"WSHL", "VENT"}} = 1..8
    /\ Len(REAGENT_CHANNELS) = 8
    /\ \A i \in 1..Len(REAGENT_CHANNELS) : Value(REAGENT_CHANNELS[i]) = i
    /\ (call.fn = "prime_wash_to_channel" /\ pc # "call") =>
            (exc.type = "AssertionError" <=> Value(call.channel) \notin 0..8)
    /\ (call.fn = "prime_wash_to_channel" /\ tx # <<>>) =>
            /\ Value(call.channel) \in 0..8
            /\ WireTokens[3] = IntStr(Value(call.channel))

\* prime_wash_to_channel primed the wash channel: id 0 went out on the wire
C11_Witness ==
    /\ call.fn = "prime_wash_to_channel"
    /\ call.channel = "WSHL"
    /\ pc = "returned"
    /\ WireTokens[1] = PRIME
    /\ WireTokens[3] = <<"0">>

(***************************************************************************)
(* Properties of one acquisition session (SpecSession, LiveSpecSession).   *)
(***************************************************************************)
Biased ==
    /\ smuLevel = [t \in Terminals |->
                     IF t = "smua" THEN DefaultGateVoltage
                     ELSE DefaultDrainVoltage]
    /\ smuOutput = [t \in Terminals |-> "on"]

\* C12: start_smu applies the gate bias and the drain bias once each on the
\* calling thread before it starts the worker (two instrument calls have
\* been served when the thread starts, and both levels are set); the worker
\* never applies a voltage, nor does the caller after the start; start_smu
\* returns with the worker at the head of its loop, not waiting for it.
C12_BiasOnceBeforeWorker ==
    /\ [](wpc[session] # "unstarted" => Biased)
    /\ [][(smuLevel' # smuLevel \/ smuOutput' # smuOutput) =>
            /\ wpc[session] = "unstarted"
            /\ wpc' = wpc
            /\ fd = "run"
            /\ Program[ip].op \in {"apply_gate", "apply_drain"}
            /\ ip' = ip + 1]_vars
    /\ [][(wpc[session] = "unstarted" /\ wpc'[session] # "unstarted") =>
            /\ smuCalls = 2
            /\ Biased
            /\ wpc'[session] = "check"
            /\ ~stop_event'[session]
            /\ ip' = ip + 1
            /\ fd' = "run"]_vars
    /\ [][(wpc[session] # "unstarted" /\ smuCalls' # smuCalls) =>
            /\ wpc'[session] # wpc[session]
            /\ ip' = ip]_vars

\* start_smu has returned, its caller is about to call stop, and the worker
\* is taking its first sample under the two biases
C12_Witness ==
    /\ fd = "run"
    /\ Program[ip].op = "stop"
    /\ wpc[session] = "measure"
    /\ smuCalls = 2
    /\ Biased

\* C13: once stop() has been called the join ends (both threads running,
\* every instrument call returning or raising); the worker tests the flag
\* once per sample and never starts a sample once it has seen the flag, so
\* at most one further reading, the one in progress at stop(), is appended
\* and written after stop().
C13_JoinEndsAfterStop ==
    /\ stop_event[session] ~> (session \in joined)
    /\ [](stop_event[session] =>
            /\ Len(results[session]) <= atStop[session] + 1
            /\ Len(sink[session].rows) <= atStop[session] + 1)
    /\ [][(stop_event[session] /\ wpc[session] = "check") =>
            wpc'[session] \in {"check", "finished"}]_vars
    /\ [](session \in joined =>
            wpc[session] \in {"finished", "crashed"})

\* the session was joined after the sample that was in progress at stop()
\* had been appended and written
C13_Witness ==
    /\ session \in joined
    /\ wpc[session] = "finished"
    /\ Len(results[session]) = atStop[session] + 1
    /\ sink[session] = [state |-> "closed", rows |-> results[session]]

IsPrefix(a, b) == Len(a) <= Len(b) /\ SubSeq(b, 1, Len(a)) = a

RowResistance ==
    IF probe.program = "run_smu" THEN row.value.drain_resistance
    ELSE row.value[4]

\* C16: every reading built by run_smu and by read_values has the empty
\* string for drain_resistance exactly when the measured drain current is
\* zero, and otherwise the non-negative number abs(drain_voltage /
\* drain_current) / 1000 (checked by cross-multiplication: kilo-ohm times
\* microampere is millivolt); the division is never taken with a zero
\* current, so no iteration raises ZeroDivisionError.
C16_ResistanceOrSentinel ==
    row # NoRow =>
        /\ row.status = "built"
        /\ RowResistance = EmptyText <=> probe.drain_c = 0
        /\ probe.drain_c # 0 =>
                /\ RowResistance.den > 0
                /\ RowResistance.num >= 0
                /\ RowResistance.num * Abs(probe.drain_c)
                        = Abs(probe.drain_v) * RowResistance.den

\* read_values measured a zero drain current and built a reading with the
\* empty string for the resistance
C16_Witness ==
    /\ probe.program = "read_values"
    /\ probe.drain_c = 0
    /\ probe.drain_v = 50
    /\ row.status = "built"
    /\ row.value[4] = EmptyText

\* C17, as stated: a drain voltage of 1.0 V and a drain current of 0.001 A
\* give a recorded drain resistance of 0.5.
C17_OneVoltOneMilliampHalf ==
    (row # NoRow /\ probe.program = "run_smu"
        /\ probe.drain_v = 1000 /\ probe.drain_c = 1000)
    => (row.status = "built" /\ row.value.drain_resistance = Rat(1, 2))

\* C17, as the code has it: a drain voltage of 1.0 V and a drain current of
\* 0.001 A give a recorded drain resistance of 1.0 (kilo-ohm), which is
\* abs(1.0 / 0.001) / 1000.
C17_OneVoltOneMilliampOne ==
    (row # NoRow /\ probe.program = "run_smu"
        /\ probe.drain_v = 1000 /\ probe.drain_c = 1000)
    => (row.status = "built" /\ row.value.drain_resistance = Rat(1, 1))

\* run_smu measured 1.0 V and 0.001 A and built its reading
C17_Witness ==
    /\ probe.program = "run_smu"
    /\ probe.drain_v = 1000
    /\ probe.drain_c = 1000
    /\ row.status = "built"
    /\ row.value.drain_voltage = Rat(1, 1)
    /\ row.value.drain_current = Rat(1, 1000)

\* C18: an instrument failure inside the worker loop surfaces at the join:
\* after joining a worker that died from an instrument error the caller is
\* in a failed state, not on the path it takes after a normal stop.
C18_CrashFailsJoin ==
    \A c \in joined : wpc[c] = "crashed" => fd = "aborted"

\* C19: when an instrument call fails in the worker after k complete
\* samples, the worker thread ends, takes no further sample, and the file
\* keeps exactly the k readings written before the failure; nothing
\* changes them afterwards.
C19_PartialResultKept ==
    /\ [](\A c \in Sessions : wpc[c] = "crashed" =>
            /\ Len(results[c]) = wi[c]
            /\ sink[c].rows = results[c]
            /\ sink[c].state = IF results[c] = <<>> THEN "absent"
                               ELSE "closed")
    /\ [][\A c \in Sessions : wpc[c] = "crashed" =>
            /\ wpc'[c] = "crashed"
            /\ results'[c] = results[c]
            /\ sink'[c] = sink[c]]_vars

\* the worker died in its second iteration and was joined; the file holds
\* the one reading written before
C19_Witness ==
    /\ wpc[session] = "crashed"
    /\ session \in joined
    /\ wi[session] = 1
    /\ Len(results[session]) = 1
    /\ sink[session] = [state |-> "closed", rows |-> results[session]]

(***************************************************************************)
(* Properties of the pattern sequencers (SpecPatterns).                    *)
(***************************************************************************)
\* C20: when a command of a pattern is answered ERR the exception leaves
\* the sequencer (run_pattern / pump_and_read, run_fluid_pattern) and the
\* rest of the pattern is not run: from then on no helper is called and
\* nothing more is written to the controller.
C20_ErrAbortsPattern ==
    /\ [](pc = "raised" => (exc.type = "Exception" /\ response = ERR))
    /\ []((seq = "aborted" \/ fd = "aborted") => pc = "raised")
    /\ [][pc = "raised" =>
            /\ pc' = "raised"
            /\ exc' = exc
            /\ tx' = tx
            /\ writes' = writes
            /\ seq' \in {seq, "aborted"}
            /\ fd' \in {fd, "aborted"}
            /\ <<item, counter, ip>>' = <<item, counter, ip>>]_vars

\* the first command of a pattern of two items was answered ERR: the
\* sequencer is left with the second item not run
C20_Witness ==
    /\ seq = "aborted"
    /\ Len(pattern) = 2
    /\ item = 1
    /\ counter = 0
    /\ writes = 1
    /\ response = ERR

(***************************************************************************)
(* Properties of a failed command in the fluid-detection loop (SpecFd).    *)
(***************************************************************************)
\* C21: if a fluidic command fails while an acquisition worker is running
\* in run_fluid_detection_loop, the error reaches the caller only with the
\* worker's cancellation flag set and the worker joined: once the sequencer
\* has aborted, every started worker is stopped, joined and no longer
\* sampling or writing its sink.
C21_AbortStopsWorker ==
    fd = "aborted" =>
        \A c \in Sessions :
            wpc[c] # "unstarted" =>
                /\ stop_event[c]
                /\ c \in joined
                /\ ~Alive(c)

(***************************************************************************)
(* Properties of the order of phases (SpecPhases).                         *)
(***************************************************************************)
\* the line a command closure of run_experiment puts on the wire
ClosureLine(name) ==
    CASE name = "collect_ch01" ->
            compile_command(COLLECT, DASH_C, "CH01", CommandSeconds, 36)
      [] name = "collect_ch02" ->
            compile_command(COLLECT, DASH_C, "CH02", CommandSeconds, 36)
      [] name = "wash_chip" ->
            compile_command(WASH, COLLECTION, "WSHL", CommandSeconds, 36)

\* the line a call statement of run() puts on the wire
StmtLine(st) ==
    CASE st.fn = "collect" ->
            compile_command(COLLECT, DASH_C, st.chan, st.seconds, DefaultRpm)
      [] st.fn = "vent_chip2collection" ->
            compile_command(COLLECT, DASH_C, "VENT", st.seconds, DefaultRpm)
      [] st.fn = "wash_common" ->
            compile_command(WASH, COMMON, "WSHL", DefaultSeconds, DefaultRpm)
      [] st.fn = "wash_chip" ->
            compile_command(WASH, COLLECTION, "WSHL", DefaultSeconds,
                            DefaultRpm)
      [] st.fn = "vent_common" ->
            compile_command(PURGE, COMMON, "WSHL", DefaultSeconds,
                            DefaultRpm)
      [] st.fn = "vent_chip2waste" ->
            compile_command(PURGE, ALL, "WSHL", DefaultSeconds, DefaultRpm)

\* the previous command was acknowledged with FIN and nothing is in flight
Acknowledged ==
    /\ pc = "returned"
    /\ response = FIN
    /\ writes = 1
    /\ ctrl = "idle"

\* a call statement precedes statement i of the program
CallBefore(i) == \E j \in 1..(i - 1) : Program[j].op = "call"

\* C22: phases execute strictly sequentially in pattern order.  In
\* run_pattern the sequencer's position (item, _counter) only moves
\* forward (_counter starts again at 0 with each item), every line written
\* to the port is the command of the item at that position, written once
\* per position, and a command is issued only when no command was issued
\* before or the previous one has been acknowledged with FIN.  In run() the
\* statements run in program order, every line written is the command of
\* the statement at hand, a command is issued only after the previous one
\* was acknowledged with FIN, and a worker is started only when the workers
\* of all earlier channels have ended and been joined.
C22_PhasesSequential ==
    /\ [][/\ item' >= item
          /\ (item' = item /\ seq # "for_item") => counter' >= counter
          /\ ip' >= ip]_vars
    /\ [][(tx' # tx /\ tx' # <<>> /\ seq # "none") =>
            /\ seq = "await"
            /\ tx = <<>>
            /\ counter < pattern[item].seconds
            /\ tx' = Encode(ClosureLine(pattern[item].command))]_vars
    /\ [][(seq = "command" /\ seq' = "await" /\ CommandIssued) =>
            Acknowledged]_vars
    /\ [][(tx' # tx /\ tx' # <<>> /\ fd # "none") =>
            /\ fd = "await"
            /\ tx = <<>>
            /\ Program[ip].op = "call"
            /\ tx' = Encode(StmtLine(Program[ip]))]_vars
    /\ [][(fd = "run" /\ fd' = "await" /\ CallBefore(ip)) =>
            Acknowledged]_vars
    /\ [][\A i \in 1..Len(REAGENT_CHANNELS) :
            (wpc[REAGENT_CHANNELS[i]] = "unstarted"
                /\ wpc'[REAGENT_CHANNELS[i]] # "unstarted") =>
                \A j \in 1..(i - 1) :
                    /\ REAGENT_CHANNELS[j] \in joined
                    /\ ~Alive(REAGENT_CHANNELS[j])]_vars

\* the command of the second item of a pattern is on the wire after both
\* commands of the first item were acknowledged
C22_Witness ==
    /\ seq = "await"
    /\ pc = "read"
    /\ item = 2
    /\ pattern[1].command = "collect_ch01"
    /\ pattern[1].seconds = 2
    /\ pattern[2].command = "wash_chip"
    /\ tx = Encode(WASH \o <<SP>> \o COLLECTION \o
                   <<SP, "0", SP, "-", "T", SP, "1", SP, "-", "R", SP,
                     "3", "6", NL>>)

(***************************************************************************)
(* Properties of the readings of the sweeping sequencer (SpecSweep).       *)
(***************************************************************************)
\* the outer iterations pump_and_read makes for a dwell of s seconds
Sweeps(s) == IF s > 0 THEN s ELSE 0

\* the outer iterations of the first n items of pattern p
RECURSIVE SweepsOf(_, _)
SweepsOf(p, n) ==
    IF n = 0 THEN 0 ELSE SweepsOf(p, n - 1) + Sweeps(p[n].seconds)

\* the gate and channel voltage of the n-th reading of a run: the grid is
\* walked gate voltage first, channel voltage second, again and again
GridGate(n) ==
    gate_voltages[(((n - 1) \div Len(channel_voltages))
                        % Len(gate_voltages)) + 1]

GridChannel(n) == channel_voltages[((n - 1) % Len(channel_voltages)) + 1]

\* C23: a measure phase with dwell s >= 0, gate voltages G and channel
\* voltages C that runs to completion produces exactly s * |G| * |C|
\* readings: the grid is swept once per counter value 0..s-1, each sweep
\* ordered by gate voltage (outer) then channel voltage (inner), and
\* run_pattern passes C = (v, -v), so each gate voltage gives the positive
\* channel reading followed at once by the negative one.
C23_GridReadings ==
    /\ Len(channel_voltages) = 2
    /\ channel_voltages[2] = 0 - channel_voltages[1]
    /\ \A n \in 1..Len(readings) :
            /\ readings[n].provided_gate_voltage = GridGate(n)
            /\ readings[n].provided_channel_voltage = GridChannel(n)
    /\ seq = "while" =>
            Len(readings) = (SweepsOf(pattern, item - 1) + counter)
                                * ReadingsPerIteration
    /\ seq = "for_item" =>
            Len(readings) = SweepsOf(pattern, item - 1)
                                * ReadingsPerIteration
    /\ seq = "done" =>
            Len(readings) = SweepsOf(pattern, Len(pattern))
                                * ReadingsPerIteration

\* a pattern with dwells 2 and 1 over two gate voltages has run to
\* completion: three sweeps of four readings
C23_Witness ==
    /\ seq = "done"
    /\ Len(pattern) = 2
    /\ pattern[1].seconds = 2
    /\ pattern[2].seconds = 1
    /\ gate_voltages = <<0, 1>>
    /\ Len(readings) = 12
    /\ readings[1].provided_channel_voltage = 50
    /\ readings[2].provided_channel_voltage = -50
    /\ readings[2].provided_gate_voltage = 0
    /\ readings[3].provided_gate_voltage = 1
    /\ readings[5].provided_gate_voltage = 0

C25_NoDwellNoSampling ==
    /\ []((item <= Len(pattern) /\ pattern[item].seconds <= 0) =>
            seq \in {"for_item", "while"})
    /\ [][(seq = "while" /\ pattern[item].seconds <= 0) =>
            /\ seq' = "for_item"
            /\ item' = item + 1
            /\ readings' = readings
            /\ smuCalls' = smuCalls
            /\ acked' = acked
            /\ pc' = pc
            /\ tx' = tx
            /\ exc' = exc]_vars

\* the sweep of the second item has begun after a first item of dwell zero
\* that left no reading and made no exchange
C25_Witness ==
    /\ item = 2
    /\ pattern[1].seconds = 0
    /\ seq = "for_pair"
    /\ counter = 0
    /\ readings = <<>>
    /\ acked = 1

(***************************************************************************)
(* Properties of the source outputs in run_experiment (SpecExperiment).    *)
(***************************************************************************)
OutputsOff == \A t \in Terminals : smuOutput[t] = "off"

\* C26: whenever the sweeping sequencer, started from initialise_smu,
\* issues a fluidic command, both source outputs are off: they are off when
\* a command is about to be issued and all the time it is in flight, they
\* have been switched off after each grid sweep, and an output is switched
\* on only when the command of the iteration has been acknowledged.
C26_OutputsOffDuringCommand ==
    /\ []((seq \in {"command", "await"} \/ InFlight) => OutputsOff)
    /\ [](seq \in {"increment", "while", "for_item", "done", "aborted"} =>
            OutputsOff)
    /\ [][(seq # "none"
            /\ \E t \in Terminals :
                    smuOutput[t] = "off" /\ smuOutput'[t] = "on") =>
            Acknowledged]_vars

\* the second command of an item is in flight after initialise_smu and a
\* sweep of four readings, with both outputs off
C26_Witness ==
    /\ kpc = "returned"
    /\ stab = StabilisationCalls
    /\ seq = "await"
    /\ ctrl = "busy"
    /\ counter = 1
    /\ Len(readings) = 4
    /\ OutputsOff
    /\ smuLevel["smub"] = -50

(***************************************************************************)
(* Properties of the access to the instrument (SpecFd).                    *)
(***************************************************************************)
\* the sequencer thread is at an instrument call of start_smu
SequencerAtInstrument ==
    Running /\ Program[ip].op \in {"apply_gate", "apply_drain"}

\* C27: the instrument is never accessed by two threads at the same
\* instant.  In run_fluid_detection_loop the sequencer thread is at no
\* instrument call between a worker's thread start and the matching join,
\* a worker is at its instrument calls only after its start and before its
\* join, and every call served by the instrument is made either by the
\* sequencer with no worker alive or by the one worker that is alive.
C27_OneThreadOnInstrument ==
    /\ [](\A c \in Sessions :
            (wpc[c] # "unstarted" /\ c \notin joined) =>
                ~SequencerAtInstrument)
    /\ [](\A c \in Sessions : wpc[c] = "measure" => c \notin joined)
    /\ [][smuCalls' # smuCalls =>
            IF ip' # ip
            THEN \A c \in Sessions : ~Alive(c)
            ELSE /\ Cardinality({c \in Sessions : Alive(c)}) = 1
                 /\ \E c \in Sessions :
                        /\ wpc[c] = "measure"
                        /\ wpc'[c] # "measure"
                        /\ c \notin joined]_vars

\* the sequencer is about to apply the gate bias for CH02 after the worker
\* of CH01 took a sample, ended and was joined
C27_Witness ==
    /\ SequencerAtInstrument
    /\ Program[ip].op = "apply_gate"
    /\ Program[ip].chan = "CH02"
    /\ wpc["CH01"] = "finished"
    /\ Len(results["CH01"]) = 1
    /\ joined = {"CH01"}

(***************************************************************************)
(* Properties of initialise_smu (SpecInitialise).                          *)
(***************************************************************************)
InRange == FrequencyOk(kargs.line_frequency) /\ NplcOk(kargs.nplc)

\* C28: initialise_smu called with a line_frequency outside {50, 60} or an
\* nplc outside [0.001, 25] raises a configuration error before any
\* hardware call is made: no connection to the instrument has been opened,
\* no integration time set and no voltage applied; for in-range values, the
\* bounds 0.001 and 25 and both frequencies included, no configuration
\* error is raised.
C28_ConfigErrorBeforeHardware ==
    /\ (~InRange /\ kpc \notin {"construct", "frequency", "nplc"}) =>
            /\ kpc = "raised"
            /\ kexc = "ValueError"
    /\ kexc = "ValueError" =>
            /\ ~InRange
            /\ link = NoLink
            /\ int_time = NoTime
            /\ smuCalls = 0
            /\ smuLevel = [t \in Terminals |-> 0]
            /\ OutputsOff

(***************************************************************************)
(* Properties of connect (LiveSpecConnect).                                *)
(***************************************************************************)
ConnectEnded == kpc \in {"returned", "raised"}

StopBefore(i) == \E j \in 1..(i - 1) : Program[j].op = "stop"

\* the sequencer thread is at a call of the stop function
AtStop == Running /\ Program[ip].op = "stop"

\* C30: stop() only sets the session's cancellation flag and returns
\* without waiting for the worker.  The flag is clear until stop() is first
\* called and is never cleared once set; a call of stop() can return
\* whatever the worker is doing; it sets the flag and changes nothing else
\* of the session, the worker or the instrument; and a call made with the
\* flag already set, before or after the worker has ended, leaves every one
\* of them as it was.
C30_StopOnlySetsFlag ==
    /\ [](~StopBefore(ip) => \A c \in Sessions : ~stop_event[c])
    /\ [](StopBefore(ip) => stop_event[session])
    /\ [][\A c \in Sessions : stop_event[c] => stop_event'[c]]_vars
    /\ [](AtStop => ENABLED FdStop)
    /\ [][(AtStop /\ ip' # ip) =>
            /\ stop_event' = [stop_event EXCEPT ![session] = TRUE]
            /\ stop_event[session] => stop_event' = stop_event
            /\ UNCHANGED <<fd, wpc, wi, results, sink, joined, samples>>
            /\ UNCHANGED smuVars]_vars

\* stop() has been called twice and has returned both times while the
\* worker of CH01 is in the middle of a sample
C30_Witness ==
    /\ session = "CH01"
    /\ ip = 7
    /\ Program[5].op = "stop"
    /\ Program[6].op = "stop"
    /\ stop_event["CH01"]
    /\ wpc["CH01"] = "measure"

\* C31: the k-th reading (counting from 0) a worker has appended carries
\* t = k, and the worker's counter is the number of readings it has appended:
\* t starts at 0 in every session and goes up by exactly 1 per reading
C31_CounterIsIndex ==
    \A c \in Sessions :
        /\ wpc[c] \notin {"unstarted"} => wi[c] = Len(results[c])
        /\ \A k \in 1..Len(results[c]) : results[c][k].t = k - 1

\* the second session of a channel has appended its first reading, t = 0,
\* while the file still holds the two readings of the first session
C31_Witness ==
    /\ client = "restart_smu"
    /\ ip > Len(SessionProgram(session))
    /\ Len(sink[session].rows) = 2
    /\ sink[session].rows[2].t = 1
    /\ Len(results[session]) = 1
    /\ results[session][1].t = 0

\* the calls of command(1) pump_and_read has made so far: those that
\* returned and the one that has not returned or has raised
Issued == acked + (IF seq \in {"await", "aborted"} THEN 1 ELSE 0)

\* C32: pump_and_read with dwell s issues exactly s commands: after k
\* outer iterations of an item the commands issued are those of the earlier
\* items plus k, one more once the command of the iteration at hand is out,
\* and an item is left with max(s, 0) of them.  Each is issued with the
\* argument 1 while _counter < s and before any reading of its iteration,
\* the line on the wire carries "-T 1" whatever the dwell, and at an item
\* with s <= 0 the sequencer passes the loop heads only.
C32_OneSecondCommands ==
    /\ [](seq \in {"while", "command"} =>
            Issued = SweepsOf(pattern, item - 1) + counter)
    /\ [](seq \notin {"for_item", "while", "command", "done", "none"} =>
            Issued = SweepsOf(pattern, item - 1) + counter + 1)
    /\ [](seq = "for_item" => Issued = SweepsOf(pattern, item - 1))
    /\ [](seq = "done" => Issued = SweepsOf(pattern, Len(pattern)))
    /\ [][(seq = "command" /\ seq' = "await") =>
            /\ call'.seconds = 1
            /\ "seconds" \in call'.kw
            /\ counter < pattern[item].seconds
            /\ Len(readings) = (SweepsOf(pattern, item - 1) + counter)
                                    * ReadingsPerIteration]_vars
    /\ []((seq # "none" /\ tx # <<>>) =>
            LET toks == Split(SubSeq(Decode(tx), 1, Len(tx) - 1), SP)
            IN /\ Len(toks) = 7
               /\ toks[4] = <<"-", "T">>
               /\ toks[5] = <<"1">>)
    /\ [][(seq # "none" /\ Len(readings') > Len(readings)) =>
            Len(readings) >= mark /\ acked' = acked
            /\ acked = SweepsOf(pattern, item - 1) + counter + 1]_vars
    /\ []((seq # "none" /\ item <= Len(pattern)
                /\ pattern[item].seconds <= 0) =>
            seq \in {"for_item", "while"})

\* an item with a dwell of 2 seconds has been left after two commands, the
\* second of which, "-T 1", is still the last line written
C32_Witness ==
    /\ seq = "for_item"
    /\ item = 2
    /\ pattern[1].seconds = 2
    /\ Issued = 2
    /\ gate_voltages # <<>>
    /\ tx = Encode(ClosureLine(pattern[1].command))

\* the steps of take_reading that measure, in source order
MeasureOrder ==
    <<"drain_voltage", "drain_current", "measured_gate_voltage",
      "measured_gate_current", "yield">>

\* both outputs are on at the two arguments of the take_reading call at hand
BiasedAsCalled ==
    /\ smuOutput["smua"] = "on"
    /\ smuOutput["smub"] = "on"
    /\ smuLevel["smua"] = gate_voltages[gi]
    /\ smuLevel["smub"] = channel_voltages[ci]

\* C33: take_reading applies the gate voltage, then the channel voltage,
\* and only then measures drain voltage, drain current, gate voltage and
\* gate current, in that order: the two apply calls are its first two
\* instrument calls and set the outputs to its two arguments, each
\* measurement is one further call made with both outputs on at those
\* arguments, and the reading records the two arguments as provided gate and
\* channel voltage, so every reading of a sweep is measured under the bias
\* pair re-applied for it.
C33_BiasThenMeasure ==
    /\ [][seq = "apply_gate" =>
            /\ seq' = "apply_channel"
            /\ smuCalls' = smuCalls + 1
            /\ smuOutput'["smua"] = "on"
            /\ smuLevel'["smua"] = gate_voltages[gi]
            /\ reading' = reading]_vars
    /\ [][seq = "apply_channel" =>
            /\ seq' = MeasureOrder[1]
            /\ smuCalls' = smuCalls + 1
            /\ smuOutput'["smub"] = "on"
            /\ smuLevel'["smub"] = channel_voltages[ci]
            /\ smuLevel'["smua"] = smuLevel["smua"]
            /\ reading'.provided_gate_voltage = gate_voltages[gi]
            /\ reading'.provided_channel_voltage = channel_voltages[ci]]_vars
    /\ [][\A n \in 1..4 :
            seq = MeasureOrder[n] =>
                /\ seq' = MeasureOrder[n + 1]
                /\ smuCalls' = smuCalls + 1
                /\ smuLevel' = smuLevel
                /\ smuOutput' = smuOutput
                /\ reading'.provided_gate_voltage
                        = reading.provided_gate_voltage
                /\ reading'.provided_channel_voltage
                        = reading.provided_channel_voltage]_vars
    /\ [](seq \in Range(MeasureOrder) =>
            /\ BiasedAsCalled
            /\ reading.provided_gate_voltage = gate_voltages[gi]
            /\ reading.provided_channel_voltage = channel_voltages[ci])
    /\ [](\A n \in 1..5 :
            seq = MeasureOrder[n] => smuCalls = reading.timestamp + n - 1)
    /\ [](seq = "yield" =>
            /\ reading.drain_voltage = channel_voltages[ci]
            /\ reading.drain_current = channel_voltages[ci]
            /\ reading.measured_gate_voltage = gate_voltages[gi]
            /\ reading.measured_gate_current = gate_voltages[gi])
    /\ [][(seq # "none" /\ readings' # readings) =>
            /\ seq = "yield"
            /\ readings' = Append(readings, reading)]_vars
    /\ [](\A n \in 1..Len(readings) :
            /\ readings[n].drain_voltage
                    = readings[n].provided_channel_voltage
            /\ readings[n].measured_gate_voltage
                    = readings[n].provided_gate_voltage)

\* the fourth reading of a sweep over two gate voltages is complete: it was
\* measured at gate voltage 1 and channel voltage -50, after readings taken
\* at other bias pairs
C33_Witness ==
    /\ seq = "yield"
    /\ gi = 2
    /\ ci = 2
    /\ Len(readings) = 3
    /\ reading.provided_gate_voltage = 1
    /\ reading.provided_channel_voltage = -50
    /\ reading.drain_voltage = -50
    /\ reading.measured_gate_voltage = 1

\* read_values has ended, by its return or by an exception of the
\* instrument
ReadValuesEnded == rpc \in {"returned", "raised"}

\* C34: once sigterm_handler has run, __stop_running__ is set and stays
\* set; read_values begins no further loop iteration, so it prints at most
\* the reading that was in progress and no reading of an iteration begun
\* after the flag was set, and it then ends: it returns only with the flag
\* set and returns 0 (it ends otherwise only by an exception of the
\* instrument).  When the handler ran before the loop began, nothing is
\* printed.
C34_StopFlagEndsLoop ==
    /\ [][stop_running => stop_running']_vars
    /\ [](atSignal # NoSignal =>
            /\ stop_running
            /\ iters = atSignal.iters
            /\ Len(printed) <= atSignal.iters
            /\ Len(printed) <= atSignal.printed + 1)
    /\ []((atSignal # NoSignal /\ atSignal.iters = 0) => printed = <<>>)
    /\ []((rpc = "returned") <=> (rv = <<0>>))
    /\ [](rv \in {<<>>, <<0>>})
    /\ [](rpc = "returned" => stop_running)
    /\ (rpc # "none" /\ stop_running) ~> ReadValuesEnded
    /\ [][ReadValuesEnded => UNCHANGED <<rpc, rv, printed>>]_vars

\* the handler ran during the second iteration: read_values printed the
\* reading in progress and returned 0 with two readings printed
C34_Witness ==
    /\ rpc = "returned"
    /\ rv = <<0>>
    /\ atSignal = [iters |-> 2, printed |-> 1]
    /\ Len(printed) = 2

\* the place of statement i among the helper calls of the program
CallNumber(i) == Cardinality({j \in 1..i : Program[j].op = "call"})

\* the exchanges of one reagent channel and of the whole loop
PerChannel == 1 + (2 * 5) + 1 + 1

LoopExchanges == PerChannel * Len(REAGENT_CHANNELS)

\* the n-th command run() is to put on the wire: for each reagent channel
\* 1..8 a vent of 120 s, five times a collect of 5 s and a vent of 1 s, a
\* collect of 90 s and a vent of 120 s; then the four reset commands
WireSequence(n) ==
    LET c == ((n - 1) \div PerChannel) + 1
        k == ((n - 1) % PerChannel) + 1
    IN  IF n > LoopExchanges
        THEN CASE n = LoopExchanges + 1 ->
                    [verb |-> WASH, qualifier |-> COMMON, id |-> 0]
               [] n = LoopExchanges + 2 ->
                    [verb |-> WASH, qualifier |-> COLLECTION, id |-> 0]
               [] n = LoopExchanges + 3 ->
                    [verb |-> PURGE, qualifier |-> COMMON, id |-> 0]
               [] n = LoopExchanges + 4 ->
                    [verb |-> PURGE, qualifier |-> ALL, id |-> 0]
        ELSE IF k \in {1, PerChannel}
        THEN [verb |-> COLLECT, qualifier |-> DASH_C, id |-> 9,
              seconds |-> 120]
        ELSE IF k = PerChannel - 1
        THEN [verb |-> COLLECT, qualifier |-> DASH_C, id |-> c,
              seconds |-> 90]
        ELSE IF k % 2 = 0
        THEN [verb |-> COLLECT, qualifier |-> DASH_C, id |-> c,
              seconds |-> 5]
        ELSE [verb |-> COLLECT, qualifier |-> DASH_C, id |-> 9,
              seconds |-> 1]

\* the line in bytes b is the command e
MatchesWire(b, e) ==
    LET toks == Split(SubSeq(Decode(b), 1, Len(b) - 1), SP)
    IN  /\ Len(toks) = 7
        /\ toks[1] = e.verb
        /\ toks[2] = e.qualifier
        /\ IsNumeral(toks[3])
        /\ ParseNat(toks[3]) = e.id
        /\ toks[4] = <<"-", "T">>
        /\ IsNumeral(toks[5])
        /\ "seconds" \in DOMAIN e => ParseNat(toks[5]) = e.seconds

\* C35: run() writes its commands in the order of WireSequence: the line
\* written for the n-th helper call of the program is the n-th command of
\* the sequence and is written once, 13 per channel for channels 1..8 in
\* ascending order, 104 in the loop; a run that ends normally has made all
\* 104 + 4 calls; and a reset command is written only when the workers of
\* all eight channels have ended and been joined.
C35_LoopWireSequence ==
    /\ [][(client = "run" /\ tx' # tx /\ tx' # <<>>) =>
            /\ tx = <<>>
            /\ fd = "await"
            /\ Program[ip].op = "call"
            /\ MatchesWire(tx', WireSequence(CallNumber(ip)))]_vars
    /\ [][(client = "run" /\ ip' # ip) => ip' = ip + 1]_vars
    /\ [](client = "run" =>
            /\ PerChannel = 13
            /\ LoopExchanges = 104
            /\ CallNumber(Len(Program)) = LoopExchanges + 4)
    /\ []((client = "run" /\ fd = "done") => ip = Len(Program) + 1)
    /\ [][(client = "run" /\ tx' # tx /\ tx' # <<>>
                /\ CallNumber(ip) > LoopExchanges) =>
            /\ joined = Sessions
            /\ \A c \in Sessions : wpc[c] \in {"finished", "crashed"}]_vars

\* the last reset command, PURGE ALL 0, is on the wire as the 108th command
\* with all eight workers joined
C35_Witness ==
    /\ client = "run"
    /\ CallNumber(ip) = 108
    /\ tx # <<>>
    /\ MatchesWire(tx, [verb |-> PURGE, qualifier |-> ALL, id |-> 0])
    /\ joined = Sessions

PrimeWrappers == {"prime_wash_to_channel", "prime_reagent_to_channel"}

\* "PRIME CHEM_WASH <channel-id> -T <seconds> -R <rpm>" and a newline, for
\* the channel, duration and flow rate of call c, whichever helper it names
PrimeChemWash(c) ==
    PRIME \o <<SP>> \o CHEM_WASH \o <<SP>> \o IntStr(Value(c.channel))
        \o <<SP, "-", "T", SP>> \o IntStr(Bind(c).seconds)
        \o <<SP, "-", "R", SP>> \o IntStr(Bind(c).rpm) \o <<NL>>

\* the channel numbers each of the two helpers accepts
PrimeAccepts(fn) ==
    IF fn = "prime_wash_to_channel" THEN 0..8 ELSE 1..8

AllowedQualifiers(fn) ==
    IF fn = "wash" THEN {DASH_C, COLLECTION, COMMON} ELSE {CHEM_WASH, DASH_C}

\* the tokens of the line the running call has written
WrittenTokens == Split(SubSeq(Decode(tx), 1, Len(tx) - 1), SP)

\* C37: wash() and prime() test the qualifier only.  Called with an allowed
\* qualifier and any of the ten channels (wash, reagent 1..8 or vent) they
\* raise no assertion error and write "WASH" / "PRIME", the qualifier and
\* the number of that channel; called with another qualifier they raise
\* with nothing written, whatever the channel.  The channel is restricted
\* by the wrappers alone: wash_common and wash_chip take no channel and
\* always write channel 0, prime_wash_to_channel writes for channels 0..8
\* only and prime_reagent_to_channel for channels 1..8 only.
C37_LeafChecksQualifierOnly ==
    /\ Cardinality(Channel) = 10
    /\ (call.fn \in {"wash", "prime"} /\ pc # "call") =>
            (exc.type = "AssertionError"
                <=> call.command \notin AllowedQualifiers(call.fn))
    /\ (call.fn \in {"wash", "prime"}
            /\ call.command \notin AllowedQualifiers(call.fn)) =>
            tx = <<>> /\ writes = 0
    /\ (call.fn \in {"wash", "prime"}
            /\ call.command \in AllowedQualifiers(call.fn)
            /\ pc \notin {"call", "write"}) =>
            /\ tx # <<>>
            /\ WrittenTokens[1] = (IF call.fn = "wash" THEN WASH ELSE PRIME)
            /\ WrittenTokens[2] = call.command
            /\ IsNumeral(WrittenTokens[3])
            /\ ParseNat(WrittenTokens[3]) = Value(call.channel)
    /\ (call.fn \in {"wash_common", "wash_chip"} /\ tx # <<>>) =>
            /\ WrittenTokens[1] = WASH
            /\ WrittenTokens[3] = <<"0">>
    /\ (call.fn = "prime_wash_to_channel" /\ tx # <<>>) =>
            Value(call.channel) \in 0..8
    /\ (call.fn = "prime_reagent_to_channel" /\ tx # <<>>) =>
            Value(call.channel) \in 1..8

\* wash() called with the vent channel has returned after writing
\* "WASH -C 9 ..."
C37_Witness ==
    /\ call.fn = "wash"
    /\ call.channel = "VENT"
    /\ call.command = DASH_C
    /\ pc = "returned"
    /\ WrittenTokens[1] = WASH
    /\ WrittenTokens[3] = <<"9">>

=============================================================================
